---------------------------- MODULE Spec2Model ----------------------------
(***************************************************************************)
(* A model of the node core: the IPC wire codec (JsonRpcCodec), the miner  *)
(* (Miner / MiningMode), the state database trait (Db) and the request     *)
(* envelope (EthRequest).  Every component has its own specification; the  *)
(* variables of the other components stay at their idle values.            *)
(***************************************************************************)
EXTENDS Integers, Sequences, FiniteSets, TLC

VARIABLES
    \* ---- wire codec (anvil/server/src/ipc.rs)
    vals,       \* the JSON values the peer writes, in order
    seps,       \* seps[i]: the whitespace the peer writes before vals[i]
    sent,       \* how many bytes of the stream have reached the read buffer
    buf,        \* the BytesMut read buffer handed to decode
    frames,     \* the frames decode has returned so far, in order
    \* ---- transaction pool, miner and block production (anvil/src/eth/miner.rs)
    poolReady,   \* the pool's ready transactions, in the order they became ready
    poolPending, \* the pool's transactions that wait for a lower nonce
    chainNonce,  \* each sender's on-chain nonce
    rx,          \* the hashes sent to the miner's listener and not yet received
    mode,        \* the MiningMode behind the Miner's lock
    queued,      \* the batches the miner returned, waiting to be built into blocks
    blocks,      \* the committed blocks, each the list of its transactions
    polls,       \* how many times Miner::poll has been called
    lastPoll,    \* what the last call of Miner::poll returned
    \* ---- state database (anvil/src/eth/backend/db.rs)
    target,      \* the Db the operations are called on: "mem" or "cache"
    layers,      \* the backend Db: its stack of state layers, the base first
    nextSnapshot,\* the id the backend's next snapshot gets
    cache,       \* the CacheDB overlay that wraps the backend
    liveSnaps,   \* the snapshots returned and not invalidated by a revert, each
                 \* with the state its Db had when snapshot() returned
    dbWrites,    \* how many mutations have been applied to the Dbs
    lastDb,      \* what the last Db operation returned
    dumped,      \* the SerializableState of the last dump_state, and whether it
                 \* has been handed to load_state
    \* ---- request envelope (anvil/anvil-core/src/eth/mod.rs)
    rpcReq,      \* the JSON request handed to EthRequest's Deserialize
    rpcRes,      \* what deserializing it gave: an EthRequest or an error
    \* ---- the lock around the miner's mode (anvil/src/eth/miner.rs)
    locked,      \* whether the RwLock of the mode is held for writing
    pc,          \* pc[c]: whether clone c of the Miner is "idle" or "polling"
    seen,        \* seen[c]: the mode (variant and configuration) clone c found
                 \* when it last took the lock
    installed,   \* the mode that was installed last
    swaps,       \* how many times the mode has been replaced
    \* ---- development signer (node/src/eth/sign.rs)
    accounts,    \* DevSigner.accounts: the wallet of each address it signs for
    created,     \* the addresses of the map DevSigner::new was given
    listed,      \* what the last call of accounts() returned
    signReq,     \* the last call of sign: its request and its address
    signRes,     \* what that call returned
    \* ---- wire codec, outgoing side (anvil/server/src/ipc.rs)
    out,         \* the BytesMut output buffer handed to encode
    msgs,        \* the messages handed to encode so far, in order
    \* ---- compiler version selection (dapp/src/solc.rs)
    versions,    \* SolcBuilder.versions: the installed compiler versions
    releases,    \* SolcBuilder.releases: the upstream releases
    svmInstalls, \* the versions handed to svm::install, in order
    solCall,     \* the last call: the operation, its arguments and the lists
                 \* as they were when it was called
    solRes,      \* what that call returned
    \* ---- IPC connections (anvil/server/src/ipc.rs)
    polled,      \* what the framed stream under an IpcConn returned, poll by poll
    yielded,     \* what IpcConn::poll_next returned, poll by poll
    listener,    \* where IpcEndpoint::listen is: "new", "accepting", "returned"
    waiting,     \* connections that arrived at the endpoint and wait there
    conns        \* the connection tasks spawned so far, in order

codecVars == <<vals, seps, sent, buf, frames>>

minerVars ==
    <<poolReady, poolPending, chainNonce, rx, mode, queued, blocks, polls,
      lastPoll>>

dbVars ==
    <<target, layers, nextSnapshot, cache, liveSnaps, dbWrites, lastDb,
      dumped>>

reqVars == <<rpcReq, rpcRes>>

lockVars == <<locked, pc, seen, installed, swaps>>

signVars == <<accounts, created, listed, signReq, signRes>>

encVars == <<out, msgs>>

solcVars == <<versions, releases, svmInstalls, solCall, solRes>>

ipcVars == <<polled, yielded, listener, waiting, conns>>

vars ==
    <<codecVars, minerVars, dbVars, reqVars, lockVars, signVars, encVars,
      solcVars, ipcVars>>

----------------------------------------------------------------------------
(* Bounds of the model *)

\* how many JSON values one stream holds at most
MaxVals == 2

\* how many transactions (nonces 0..MaxNonces-1) each sender signs
MaxNonces == 2

\* how many times the miner is polled
MaxPolls == 3

\* how many transactions each sender signs when a batch of ready
\* transactions is fed to an Instant miner
FedNonces == 3

\* how many times the fed miner is polled
MaxFeedPolls == 4

\* how many times the miner's mode is replaced
MaxSwaps == 1

\* how many mutations are applied to the state databases
MaxWrites == 2

\* how many snapshots the backend Db takes
MaxSnapshots == 2

----------------------------------------------------------------------------
(* Sequence helpers *)

RECURSIVE Flatten(_)
Flatten(ss) == IF ss = <<>> THEN <<>> ELSE Head(ss) \o Flatten(Tail(ss))

Take(s, n) == SubSeq(s, 1, IF n < Len(s) THEN n ELSE Len(s))

Drop(s, n) == SubSeq(s, n + 1, Len(s))

Range(s) == {s[i] : i \in 1..Len(s)}

IsPrefix(p, s) == Len(p) <= Len(s) /\ SubSeq(s, 1, Len(p)) = p

----------------------------------------------------------------------------
(* JsonRpcCodec::decode.  A byte is a one-character string; BadByte stands *)
(* for the byte 0xFF, which no UTF-8 text contains.                        *)

BadByte == "\\xFF"

is_whitespace(byte) == byte \in {"\r", "\n", " ", "\t"}

\* line 121: an opening brace or bracket outside a string
IsOpenNoStr(byte, in_str) == byte = "{" \/ byte = "["
IsOpen(byte, in_str) == (byte = "{" \/ byte = "[") /\ ~in_str

\* line 126: a closing brace or bracket outside a string
IsCloseNoStr(byte, in_str) == byte = "}" \/ byte = "]"
IsClose(byte, in_str) == (byte = "}" \/ byte = "]") /\ ~in_str

\* line 128: an unescaped quote toggles in_str
IsQuote(byte, is_escaped) == byte = "\"" /\ ~is_escaped

\* lines 133-137: the value of is_escaped after the byte
EscapesNextNever(byte, is_escaped, in_str) == FALSE
EscapesNext(byte, is_escaped, in_str) == byte = "\\" /\ ~is_escaped /\ in_str

\* line 139: the condition under which the frame ends at idx
EmitsAtNoStart(depth, idx, start_idx, whitespaces) ==
    depth = 0 /\ idx - start_idx + 1 > whitespaces
EmitsAt(depth, idx, start_idx, whitespaces) ==
    depth = 0 /\ idx # start_idx /\ idx - start_idx + 1 > whitespaces

NoFrame == -1

\* a mutation of Scan: a frame is only seen when it ends at the last byte of
\* the buffer, so that what is emitted depends on where the chunks end
RECURSIVE ScanToEnd(_, _, _, _, _, _, _)
ScanToEnd(b, idx, depth, in_str, is_escaped, start_idx, whitespaces) ==
    IF idx >= Len(b) THEN NoFrame
    ELSE LET byte == b[idx + 1]
             open == IsOpen(byte, in_str)
             close == ~open /\ IsClose(byte, in_str)
             quote == ~open /\ ~close /\ IsQuote(byte, is_escaped)
             white == ~open /\ ~close /\ ~quote /\ is_whitespace(byte)
             start1 == IF open /\ depth = 0 THEN idx ELSE start_idx
             depth1 == IF open THEN depth + 1
                       ELSE IF close THEN depth - 1 ELSE depth
             in_str1 == IF quote THEN ~in_str ELSE in_str
             white1 == IF white THEN whitespaces + 1 ELSE whitespaces
             escaped1 == EscapesNext(byte, is_escaped, in_str1)
         IN  IF EmitsAt(depth1, idx, start1, white1)
             THEN IF idx + 1 = Len(b) THEN idx ELSE NoFrame
             ELSE ScanToEnd(b, idx + 1, depth1, in_str1, escaped1, start1, white1)

\* lines 112-146: the scan of the buffer from byte idx (0-based) on; the index
\* at which the frame ends, or NoFrame when the loop runs off the buffer
RECURSIVE Scan(_, _, _, _, _, _, _)
Scan(b, idx, depth, in_str, is_escaped, start_idx, whitespaces) ==
    IF idx >= Len(b) THEN NoFrame
    ELSE LET byte == b[idx + 1]
             open == IsOpen(byte, in_str)
             close == ~open /\ IsClose(byte, in_str)
             quote == ~open /\ ~close /\ IsQuote(byte, is_escaped)
             white == ~open /\ ~close /\ ~quote /\ is_whitespace(byte)
             start1 == IF open /\ depth = 0 THEN idx ELSE start_idx
             depth1 == IF open THEN depth + 1
                       ELSE IF close THEN depth - 1 ELSE depth
             in_str1 == IF quote THEN ~in_str ELSE in_str
             white1 == IF white THEN whitespaces + 1 ELSE whitespaces
             escaped1 == EscapesNext(byte, is_escaped, in_str1)
         IN  IF EmitsAt(depth1, idx, start1, white1) THEN idx
             ELSE Scan(b, idx + 1, depth1, in_str1, escaped1, start1, white1)

\* String::from_utf8 on the bytes of the frame
from_utf8_ok(bts) == \A i \in 1..Len(bts) : bts[i] # BadByte

\* the bytes from the first one that is not whitespace on
RECURSIVE TrimStart(_)
TrimStart(bts) ==
    IF bts # <<>> /\ is_whitespace(Head(bts)) THEN TrimStart(Tail(bts)) ELSE bts

\* a mutation of decode: the frame is returned without its leading whitespace
decode_trimmed(b) ==
    LET idx == Scan(b, 0, 0, FALSE, FALSE, 0, 0)
    IN  IF idx = NoFrame
        THEN [ret |-> "None", frame |-> <<>>, rest |-> b, split |-> FALSE]
        ELSE LET bts == SubSeq(b, 1, idx + 1)
                 rest == SubSeq(b, idx + 2, Len(b))
             IN  IF from_utf8_ok(bts)
                 THEN [ret |-> "Some", frame |-> TrimStart(bts), rest |-> rest,
                       split |-> TRUE]
                 ELSE [ret |-> "None", frame |-> <<>>, rest |-> rest, split |-> TRUE]

\* lines 107-148: the result of decode(buf): what it returns and what it
\* leaves in buf.  ret is "Some" (with the frame) or "None".
decode(b) ==
    LET idx == Scan(b, 0, 0, FALSE, FALSE, 0, 0)
    IN  IF idx = NoFrame
        THEN [ret |-> "None", frame |-> <<>>, rest |-> b, split |-> FALSE]
        ELSE LET bts == SubSeq(b, 1, idx + 1)
                 rest == SubSeq(b, idx + 2, Len(b))
             IN  IF from_utf8_ok(bts)
                 THEN [ret |-> "Some", frame |-> bts, rest |-> rest, split |-> TRUE]
                 ELSE [ret |-> "None", frame |-> <<>>, rest |-> rest, split |-> TRUE]

----------------------------------------------------------------------------
(* The byte streams a peer writes: JSON objects and arrays, each preceded  *)
(* by some whitespace.                                                     *)

EmptyObject == <<"{", "}">>
NestedArray == <<"[", "[", "]", "]">>
\* {"s":"}"}
BraceInString == <<"{", "\"", "s", "\"", ":", "\"", "}", "\"", "}">>
\* ["\\]"]  : a string holding an escaped backslash and a bracket
EscapedBackslash == <<"[", "\"", "\\", "\\", "]", "\"", "]">>
\* ["\"{"]  : a string holding an escaped quote and a brace
EscapedQuote == <<"[", "\"", "\\", "\"", "{", "\"", "]">>
\* {"a": 1}
SpacedObject == <<"{", "\"", "a", "\"", ":", " ", "1", "}">>

JsonValues ==
    {EmptyObject, NestedArray, BraceInString, EscapedBackslash, EscapedQuote,
     SpacedObject}

Separators == {<<>>, <<"\n">>, <<" ", " ">>}

\* the bytes of the first n values with their separators
StreamUpTo(n) == Flatten([i \in 1..n |-> seps[i] \o vals[i]])

Stream == StreamUpTo(Len(vals))

\* how many values have their closing delimiter within the first k bytes
ClosedWithin(k) == Cardinality({n \in 1..Len(vals) : Len(StreamUpTo(n)) <= k})

NoSeparators == \A i \in 1..Len(seps) : seps[i] = <<>>

CodecStart ==
    /\ \E n \in 1..MaxVals :
          /\ vals \in [1..n -> JsonValues]
          /\ seps \in [1..n -> Separators]
    /\ sent = 0
    /\ buf = <<>>
    /\ frames = <<>>

\* text without any brace or bracket, a bare scalar, whitespace
BareText == <<"a", "b">>
BareScalar == <<"1", "2">>
WhitespaceOnly == <<" ", "\n">>
\* {<0xFF>} and ["<0xFF>"]: a complete object and a complete array whose bytes
\* are not UTF-8
BadObject == <<"{", BadByte, "}">>
BadString == <<"[", "\"", BadByte, "\"", "]">>

RawChunks ==
    {EmptyObject, NestedArray, BareText, BareScalar, WhitespaceOnly, BadObject,
     BadString}

\* a peer that writes arbitrary chunks of bytes, not only JSON objects
RawStart ==
    /\ \E n \in 1..MaxVals :
          /\ vals \in [1..n -> RawChunks]
          /\ seps = [i \in 1..n |-> <<>>]
    /\ sent = 0
    /\ buf = <<>>
    /\ frames = <<>>

\* the transport appends the next byte of the stream to the read buffer
Receive ==
    /\ sent < Len(Stream)
    /\ sent' = sent + 1
    /\ buf' = Append(buf, Stream[sent + 1])
    /\ UNCHANGED <<vals, seps, frames>>
    /\ UNCHANGED <<ipcVars, minerVars, dbVars, reqVars, lockVars, signVars, encVars, solcVars>>

\* one call of JsonRpcCodec::decode on the read buffer
Decode ==
    LET r == decode(buf)
    IN  /\ buf' = r.rest
        /\ frames' = IF r.ret = "Some" THEN Append(frames, r.frame) ELSE frames
        /\ UNCHANGED <<vals, seps, sent>>
        /\ UNCHANGED <<ipcVars, minerVars, dbVars, reqVars, lockVars, signVars, encVars, solcVars>>

\* a connection on which nothing has been written
CodecIdle ==
    /\ vals = <<>>
    /\ seps = <<>>
    /\ sent = 0
    /\ buf = <<>>
    /\ frames = <<>>

----------------------------------------------------------------------------
(* The transaction pool (spec 4.E).  A transaction is its sender and       *)
(* nonce; its gas price is fixed by GasPrice and its hash is a function of *)
(* the signed envelope.                                                    *)

Senders == {"A", "B"}

TxUniverse == [sender : Senders, nonce : 0..(MaxNonces - 1)]

GasPrice(tx) == IF (tx.sender = "A") = (tx.nonce % 2 = 0) THEN 1 ELSE 2

Hash(tx) == <<tx.sender, tx.nonce>>

Hashes(txs) == {Hash(txs[i]) : i \in 1..Len(txs)}

InPool(tx) == tx \in Range(poolReady) \/ tx \in poolPending

\* the nonce the sender's next ready transaction must carry
NextNonce(ready, s) ==
    chainNonce[s] + Cardinality({t \in Range(ready) : t.sender = s})

\* the pending transactions that become ready once `ready` holds what it holds
RECURSIVE Promote(_, _, _)
Promote(ready, pending, s) ==
    LET next == {t \in pending : t.sender = s /\ t.nonce = NextNonce(ready, s)}
    IN  IF next = {} THEN ready
        ELSE Promote(Append(ready, CHOOSE t \in next : TRUE), pending, s)

IndexOf(seq, x) == CHOOSE i \in 1..Len(seq) : seq[i] = x

\* Pool::ready_transactions: a sender's transactions by ascending nonce;
\* across senders the higher gas price first, insertion order breaking ties
RECURSIVE ReadyIter(_, _)
ReadyIter(ready, left) ==
    IF left = {} THEN <<>>
    ELSE LET heads == {t \in left :
                          \A u \in left : u.sender = t.sender => t.nonce <= u.nonce}
             best == CHOOSE t \in heads :
                        \A u \in heads :
                           \/ GasPrice(t) > GasPrice(u)
                           \/ /\ GasPrice(t) = GasPrice(u)
                              /\ IndexOf(ready, t) <= IndexOf(ready, u)
         IN  <<best>> \o ReadyIter(ready, left \ {best})

ready_transactions == ReadyIter(poolReady, Range(poolReady))

----------------------------------------------------------------------------
(* The miner (anvil/src/eth/miner.rs) *)

Min(a, b) == IF a < b THEN a ELSE b

Instant(max_transactions) ==
    [kind |-> "Instant", max_transactions |-> max_transactions, ready |-> {},
     ticked |-> FALSE]

\* lines 69-71, 100-102: the first tick of a tokio interval completes at once
FixedBlockTime ==
    [kind |-> "FixedBlockTime", max_transactions |-> 0, ready |-> {},
     ticked |-> TRUE]

\* a Miner that has been dropped: its mode, listener and accumulator are gone
Dropped ==
    [kind |-> "Dropped", max_transactions |-> 0, ready |-> {}, ticked |-> FALSE]

\* lines 134-136: every hash available on rx goes into the accumulator
DrainNothing(acc, chan) == acc
Drain(acc, chan) == acc \cup Range(chan)

\* lines 142-143: pool.ready_transactions().take(self.max_transactions)
TakeAll(txs, max_transactions) == txs
TakeMax(txs, max_transactions) ==
    SubSeq(txs, 1, Min(max_transactions, Len(txs)))

\* lines 145-147: the hashes of the taken transactions leave the accumulator
RemoveEvery(acc, txs) == {}
RemoveTaken(acc, txs) == acc \ Hashes(txs)

\* lines 133-150: ReadyTransactionMiner::poll
ReadyTransactionMiner_poll_on_pool(m, chan, pool_ready) ==
    LET acc == Drain(m.ready, chan)
        transactions == TakeMax(pool_ready, m.max_transactions)
    IN  IF pool_ready = <<>>
        THEN [mode |-> [m EXCEPT !.ready = acc], rx |-> <<>>,
              ret |-> "Pending", txs |-> <<>>]
        ELSE [mode |-> [m EXCEPT !.ready = RemoveTaken(acc, transactions)],
              rx |-> <<>>, ret |-> "Ready", txs |-> transactions]
ReadyTransactionMiner_poll(m, chan, pool_ready) ==
    LET acc == Drain(m.ready, chan)
    IN  IF acc = {}
        THEN [mode |-> [m EXCEPT !.ready = acc], rx |-> <<>>,
              ret |-> "Pending", txs |-> <<>>]
        ELSE LET transactions == TakeMax(pool_ready, m.max_transactions)
             IN  [mode |-> [m EXCEPT !.ready = RemoveTaken(acc, transactions)],
                  rx |-> <<>>, ret |-> "Ready", txs |-> transactions]

\* lines 104-110: FixedBlockTimeMiner::poll
FixedBlockTimeMiner_poll_untimed(m, chan, pool_ready) ==
    [mode |-> [m EXCEPT !.ticked = FALSE], rx |-> chan,
     ret |-> "Ready", txs |-> pool_ready]
FixedBlockTimeMiner_poll(m, chan, pool_ready) ==
    IF m.ticked
    THEN [mode |-> [m EXCEPT !.ticked = FALSE], rx |-> chan,
          ret |-> "Ready", txs |-> pool_ready]
    ELSE [mode |-> m, rx |-> chan, ret |-> "Pending", txs |-> <<>>]

\* lines 74-83: MiningMode::poll
MiningMode_poll(m, chan, pool_ready) ==
    IF m.kind = "Instant"
    THEN ReadyTransactionMiner_poll(m, chan, pool_ready)
    ELSE FixedBlockTimeMiner_poll(m, chan, pool_ready)

MinerStart ==
    /\ poolReady = <<>>
    /\ poolPending = {}
    /\ chainNonce = [s \in Senders |-> 0]
    /\ rx = <<>>
    /\ mode \in {Instant(1), Instant(2), FixedBlockTime}
    /\ queued = <<>>
    /\ blocks = <<>>
    /\ polls = 0
    /\ lastPoll = [ret |-> "Pending", txs |-> <<>>]

MinerIdle ==
    /\ poolReady = <<>>
    /\ poolPending = {}
    /\ chainNonce = [s \in Senders |-> 0]
    /\ rx = <<>>
    /\ mode = FixedBlockTime
    /\ queued = <<>>
    /\ blocks = <<>>
    /\ polls = 0
    /\ lastPoll = [ret |-> "Pending", txs |-> <<>>]

\* the pool admits a transaction (spec 4.E, steps 3 to 6) and sends the hash
\* of every transaction that became ready to the miner's listener
Admit(tx) ==
    /\ tx.nonce >= chainNonce[tx.sender]
    /\ ~InPool(tx)
    /\ IF tx.nonce = NextNonce(poolReady, tx.sender)
       THEN LET ready1 == Promote(Append(poolReady, tx), poolPending, tx.sender)
                fresh == SubSeq(ready1, Len(poolReady) + 1, Len(ready1))
            IN  /\ poolReady' = ready1
                /\ poolPending' = poolPending \ Range(fresh)
                /\ rx' = IF mode.kind = "Instant"
                         THEN rx \o [i \in 1..Len(fresh) |-> Hash(fresh[i])]
                         ELSE rx
       ELSE /\ poolPending' = poolPending \cup {tx}
            /\ UNCHANGED <<poolReady, rx>>
    /\ UNCHANGED <<chainNonce, mode, queued, blocks, polls, lastPoll>>
    /\ UNCHANGED <<ipcVars, codecVars, dbVars, reqVars, lockVars, signVars, encVars, solcVars>>

\* the interval of the FixedBlockTimeMiner elapses
Tick ==
    /\ mode.kind = "FixedBlockTime"
    /\ ~mode.ticked
    /\ mode' = [mode EXCEPT !.ticked = TRUE]
    /\ UNCHANGED <<poolReady, poolPending, chainNonce, rx, queued, blocks,
                   polls, lastPoll>>
    /\ UNCHANGED <<ipcVars, codecVars, dbVars, reqVars, lockVars, signVars, encVars, solcVars>>

\* lines 104-107, 142-143: poll has the pool by shared reference and calls
\* only ready_transactions() on it, which reads the ready list
PoolAfterPollTaken(ready, txs) == SelectSeq(ready, LAMBDA t : t \notin Range(txs))
PoolAfterPoll(ready, txs) == ready

\* lines 37-43: Miner::poll under the mode's write lock; the node hands a
\* returned batch to the block producer
Miner_poll ==
    /\ mode.kind # "Dropped"
    /\ LET r == MiningMode_poll(mode, rx, ready_transactions)
       IN  /\ mode' = r.mode
           /\ rx' = r.rx
           /\ lastPoll' = [ret |-> r.ret, txs |-> r.txs]
           /\ queued' = IF r.ret = "Ready" THEN Append(queued, r.txs) ELSE queued
           /\ poolReady' = PoolAfterPoll(poolReady, r.txs)
    /\ polls' = polls + 1
    /\ UNCHANGED <<poolPending, chainNonce, blocks>>
    /\ UNCHANGED <<ipcVars, codecVars, dbVars, reqVars, lockVars, signVars, encVars, solcVars>>

MinerPoll == polls < MaxPolls /\ Miner_poll

\* lines 19-23: the Miner is dropped between two polls (poll has no await
\* point): its mode goes, and with it the listener and the accumulator
DropMiner ==
    /\ mode.kind # "Dropped"
    /\ mode' = Dropped
    /\ rx' = <<>>
    /\ UNCHANGED <<poolReady, poolPending, chainNonce, queued, blocks, polls,
                   lastPoll>>
    /\ UNCHANGED <<ipcVars, codecVars, dbVars, reqVars, lockVars, signVars, encVars, solcVars>>

\* the block builder commits the oldest queued batch as a block (spec 4.G)
\* and the pool drops the mined transactions
Commit ==
    /\ queued # <<>>
    /\ LET batch == Head(queued)
           mined(s) == {t.nonce + 1 : t \in {u \in Range(batch) : u.sender = s}}
       IN  /\ blocks' = Append(blocks, batch)
           /\ poolReady' = SelectSeq(poolReady, LAMBDA t : t \notin Range(batch))
           /\ chainNonce' =
                [s \in Senders |->
                    CHOOSE n \in mined(s) \cup {chainNonce[s]} :
                        \A k \in mined(s) \cup {chainNonce[s]} : k <= n]
    /\ queued' = Tail(queued)
    /\ UNCHANGED <<poolPending, rx, mode, polls, lastPoll>>
    /\ UNCHANGED <<ipcVars, codecVars, dbVars, reqVars, lockVars, signVars, encVars, solcVars>>

----------------------------------------------------------------------------
(* The lock around the mode: Miner { mode: Arc<RwLock<MiningMode>> }.  The  *)
(* clones of a Miner share the Arc, so they share the lock and the mode.   *)

Clones == {"c1", "c2"}

\* the transactions the pool may admit while the clones poll
LockTxs == [sender : Senders, nonce : {0}]

\* what a replacement installs: the variant and its configuration (the timer
\* and the accumulator belong to the running miner)
Installed(m) == <<m.kind, m.max_transactions>>

\* RwLock::write: granted only while the lock is not held
write_granted_always(held) == TRUE
write_granted(held) == ~held

LockStart ==
    /\ locked = FALSE
    /\ pc = [c \in Clones |-> "idle"]
    /\ seen = [c \in Clones |-> Installed(mode)]
    /\ installed = Installed(mode)
    /\ swaps = 0

LockIdle == LockStart

\* line 42: self.mode.write() at the start of Miner::poll
AcquireForPoll(c) ==
    /\ pc[c] = "idle"
    /\ polls < MaxPolls
    /\ write_granted(locked)
    /\ locked' = TRUE
    /\ pc' = [pc EXCEPT ![c] = "polling"]
    /\ seen' = [seen EXCEPT ![c] = Installed(mode)]
    /\ UNCHANGED <<installed, swaps>>
    /\ UNCHANGED <<ipcVars, codecVars, minerVars, dbVars, reqVars, signVars, encVars, solcVars>>

\* line 42: MiningMode::poll on the locked mode; the guard is released when
\* the statement ends
PollLocked(c) ==
    /\ pc[c] = "polling"
    /\ LET r == MiningMode_poll(mode, rx, ready_transactions)
       IN  /\ mode' = r.mode
           /\ rx' = r.rx
           /\ lastPoll' = [ret |-> r.ret, txs |-> r.txs]
           /\ queued' = IF r.ret = "Ready" THEN Append(queued, r.txs) ELSE queued
    /\ polls' = polls + 1
    /\ locked' = FALSE
    /\ pc' = [pc EXCEPT ![c] = "idle"]
    /\ UNCHANGED <<poolReady, poolPending, chainNonce, blocks>>
    /\ UNCHANGED <<seen, installed, swaps>>
    /\ UNCHANGED <<ipcVars, codecVars, dbVars, reqVars, signVars, encVars, solcVars>>

\* reconfiguration (spec 3, MiningMode): the mode behind the lock is replaced
\* under the write lock; an Instant mode comes with a new listener
ReplaceMode(new) ==
    /\ swaps < MaxSwaps
    /\ write_granted(locked)
    /\ mode' = new
    /\ rx' = <<>>
    /\ installed' = Installed(new)
    /\ swaps' = swaps + 1
    /\ UNCHANGED <<poolReady, poolPending, chainNonce, queued, blocks, polls,
                   lastPoll>>
    /\ UNCHANGED <<locked, pc, seen>>
    /\ UNCHANGED <<ipcVars, codecVars, dbVars, reqVars, signVars, encVars, solcVars>>

----------------------------------------------------------------------------
(* The state database (anvil/src/eth/backend/db.rs).  "mem" is the         *)
(* backend's layered Db (spec 3 and 4.D), "cache" the CacheDB overlay that *)
(* wraps it.  An absent entry is <<>>, a present one <<value>>.            *)

Addrs == {"a", "b"}

Slots == {0}

Dbs == {"mem", "cache"}

Some(x) == <<x>>

None == <<>>

KECCAK_EMPTY == <<"keccak256">>

keccak256(code) == IF code = <<>> THEN KECCAK_EMPTY ELSE <<"keccak256", code>>

\* AccountInfo::default()
DefaultInfo ==
    [nonce |-> 0, balance |-> 0, code_hash |-> KECCAK_EMPTY, code |-> None]

EmptyLayer(id) ==
    [id |-> id,
     info |-> [a \in Addrs |-> None],
     storage |-> [k \in Addrs \X Slots |-> None]]

EmptyCache ==
    [info |-> [a \in Addrs |-> None],
     storage |-> [k \in Addrs \X Slots |-> None]]

\* reads of the layered Db walk the layers from the top to the base
RECURSIVE LayerInfo(_, _, _)
LayerInfo(ls, n, a) ==
    IF n = 0 THEN DefaultInfo
    ELSE IF ls[n].info[a] # None THEN ls[n].info[a][1]
    ELSE LayerInfo(ls, n - 1, a)

RECURSIVE LayerStorage(_, _, _)
LayerStorage(ls, n, k) ==
    IF n = 0 THEN 0
    ELSE IF ls[n].storage[k] # None THEN ls[n].storage[k][1]
    ELSE LayerStorage(ls, n - 1, k)

\* DatabaseRef::basic
basic_of(ls, c, db, a) ==
    IF db = "cache" /\ c.info[a] # None THEN c.info[a][1]
    ELSE LayerInfo(ls, Len(ls), a)

basic(db, a) == basic_of(layers, cache, db, a)

\* DatabaseRef::storage
storage_of(ls, c, db, a, slot) ==
    IF db = "cache" /\ c.storage[<<a, slot>>] # None
    THEN c.storage[<<a, slot>>][1]
    ELSE LayerStorage(ls, Len(ls), <<a, slot>>)

storage(db, a, slot) == storage_of(layers, cache, db, a, slot)

\* what the reads of a Db return: nonce, balance, code hash, code and storage
\* of every account
ViewOf(ls, c, db) ==
    [info |-> [a \in Addrs |-> basic_of(ls, c, db, a)],
     storage |-> [k \in Addrs \X Slots |-> storage_of(ls, c, db, k[1], k[2])]]

View(db) == ViewOf(layers, cache, db)

NotDumped == [st |-> "none", state |-> None]

DbStart ==
    /\ target \in Dbs
    /\ layers = <<EmptyLayer(0)>>
    /\ nextSnapshot = 1
    /\ cache = EmptyCache
    /\ liveSnaps = {}
    /\ dbWrites = 0
    /\ lastDb = [ret |-> TRUE, id |-> 0]
    /\ dumped = NotDumped

DbIdle ==
    /\ target = "mem"
    /\ layers = <<EmptyLayer(0)>>
    /\ nextSnapshot = 1
    /\ cache = EmptyCache
    /\ liveSnaps = {}
    /\ dbWrites = 0
    /\ lastDb = [ret |-> TRUE, id |-> 0]
    /\ dumped = NotDumped

\* lines 41 and 101-103: Db::insert_account; the backend writes its top layer
insert_account_through(db, a, account) ==
    /\ layers' = [layers EXCEPT ![Len(layers)].info[a] = Some(account)]
    /\ IF db = "cache"
       THEN cache' = [cache EXCEPT !.info[a] = Some(account)]
       ELSE UNCHANGED cache
insert_account(db, a, account) ==
    IF db = "cache"
    THEN /\ cache' = [cache EXCEPT !.info[a] = Some(account)]
         /\ UNCHANGED layers
    ELSE /\ layers' = [layers EXCEPT ![Len(layers)].info[a] = Some(account)]
         /\ UNCHANGED cache

\* what the operation returned: a bool (true for the operations that return
\* nothing) or a snapshot id
Returned(ret, id) ==
    /\ lastDb' = [ret |-> ret, id |-> id]
    /\ UNCHANGED target
    /\ UNCHANGED <<ipcVars, codecVars, minerVars, reqVars, lockVars, signVars, encVars, solcVars>>

\* one more mutation
Written ==
    /\ dbWrites < MaxWrites
    /\ dbWrites' = dbWrites + 1
    /\ UNCHANGED <<nextSnapshot, liveSnaps, dumped>>

InsertAccount(db, a, account) ==
    /\ insert_account(db, a, account)
    /\ Returned(TRUE, 0)
    /\ Written

\* lines 44-48: Db::set_nonce
SetNonce(db, a, nonce) ==
    /\ LET info == basic(db, a)
       IN  insert_account(db, a, [info EXCEPT !.nonce = nonce])
    /\ Returned(TRUE, 0)
    /\ Written

\* lines 51-55: Db::set_balance
SetBalanceFresh(db, a, balance) ==
    /\ insert_account(db, a, [DefaultInfo EXCEPT !.balance = balance])
    /\ Returned(TRUE, 0)
    /\ Written
SetBalance(db, a, balance) ==
    /\ LET info == basic(db, a)
       IN  insert_account(db, a, [info EXCEPT !.balance = balance])
    /\ Returned(TRUE, 0)
    /\ Written

\* lines 60-64: the code hash that set_code stores
code_hash_kept(code) == KECCAK_EMPTY
code_hash_of(code) == IF code = <<>> THEN KECCAK_EMPTY ELSE keccak256(code)

\* lines 58-68: Db::set_code
SetCode(db, a, code) ==
    /\ LET info == basic(db, a)
           code_hash == code_hash_of(code)
       IN  insert_account(db, a, [info EXCEPT !.code_hash = code_hash,
                                              !.code = Some(code)])
    /\ Returned(TRUE, 0)
    /\ Written

\* lines 71 and 105-107: Db::set_storage_at
SetStorageAt(db, a, slot, val) ==
    /\ IF db = "cache"
       THEN /\ cache' = [cache EXCEPT !.storage[<<a, slot>>] = Some(val)]
            /\ UNCHANGED layers
       ELSE /\ layers' = [layers EXCEPT
                             ![Len(layers)].storage[<<a, slot>>] = Some(val)]
            /\ UNCHANGED cache
    /\ Returned(TRUE, 0)
    /\ Written

\* the record of a snapshot that has been returned
Remember(db, id) ==
    liveSnaps' = {e \in liveSnaps : ~(e.db = db /\ e.id = id)}
                    \cup {[db |-> db, id |-> id, view |-> View(db)]}

IsLive(db, id) == \E e \in liveSnaps : e.db = db /\ e.id = id

ViewAt(db, id) == (CHOOSE e \in liveSnaps : e.db = db /\ e.id = id).view

\* lines 80 and 117-119: Db::snapshot.  The backend pushes a new layer and
\* returns its id (spec 4.D); the overlay returns zero
Snapshot(db) ==
    /\ IF db = "cache"
       THEN /\ UNCHANGED <<layers, nextSnapshot, cache>>
            /\ Remember(db, 0)
            /\ Returned(TRUE, 0)
       ELSE /\ nextSnapshot <= MaxSnapshots
            /\ layers' = Append(layers, EmptyLayer(nextSnapshot))
            /\ nextSnapshot' = nextSnapshot + 1
            /\ UNCHANGED cache
            /\ Remember(db, nextSnapshot)
            /\ Returned(TRUE, nextSnapshot)
    /\ UNCHANGED <<dbWrites, dumped>>

\* whether the stack holds the layer that snapshot id pushed
has_snapshot_any(ls, id) == TRUE
has_snapshot(ls, id) == \E i \in 2..Len(ls) : ls[i].id = id

\* the layers beneath the layer that snapshot id pushed
revert_layers_keep(ls, id) == SelectSeq(ls, LAMBDA l : l.id <= id)
revert_layers(ls, id) == SelectSeq(ls, LAMBDA l : l.id < id)

\* lines 85 and 121-123: Db::revert.  The backend truncates the stack to the
\* layer beneath the snapshot (spec 3 and 4.D) and fails when the snapshot
\* is gone; the overlay returns false
RevertClearing(db, id) ==
    /\ IF db = "cache"
       THEN /\ cache' = EmptyCache
            /\ UNCHANGED <<layers, liveSnaps>>
            /\ Returned(TRUE, 0)
       ELSE IF has_snapshot(layers, id)
            THEN /\ layers' = revert_layers(layers, id)
                 /\ liveSnaps' = {e \in liveSnaps : ~(e.db = db /\ e.id >= id)}
                 /\ UNCHANGED cache
                 /\ Returned(TRUE, 0)
            ELSE /\ UNCHANGED <<layers, cache, liveSnaps>>
                 /\ Returned(FALSE, 0)
    /\ UNCHANGED <<nextSnapshot, dbWrites, dumped>>
Revert(db, id) ==
    /\ IF db = "cache"
       THEN /\ UNCHANGED <<layers, cache, liveSnaps>>
            /\ Returned(FALSE, 0)
       ELSE IF has_snapshot(layers, id)
            THEN /\ layers' = revert_layers(layers, id)
                 /\ liveSnaps' = {e \in liveSnaps : ~(e.db = db /\ e.id >= id)}
                 /\ UNCHANGED cache
                 /\ Returned(TRUE, 0)
            ELSE /\ UNCHANGED <<layers, cache, liveSnaps>>
                 /\ Returned(FALSE, 0)
    /\ UNCHANGED <<nextSnapshot, dbWrites, dumped>>

NonceArgs == {1}

BalanceArgs == {1000}

CodeArgs == {<<>>, <<"c">>}

ValueArgs == {1}

AccountArgs ==
    {[nonce |-> 1, balance |-> 1000, code_hash |-> keccak256(<<"c">>),
      code |-> Some(<<"c">>)]}

\* an AccountInfo whose code_hash names code that it does not carry
UnbackedAccount ==
    [nonce |-> 1, balance |-> 1000, code_hash |-> keccak256(<<"c">>),
     code |-> None]

AnyAccountArgs == AccountArgs \cup {UnbackedAccount}

\* the bytes of an account's code: none when the code is absent
code_bytes(info) == IF info.code = None THEN <<>> ELSE info.code[1]

\* line 39, DatabaseCommit::commit (spec 4.D commit(changeset)): the changes
\* of one executed transaction, here one account and one of its slots
DbCommit(db, a, account, slot, val) ==
    /\ IF db = "cache"
       THEN /\ cache' = [cache EXCEPT !.info[a] = Some(account),
                                      !.storage[<<a, slot>>] = Some(val)]
            /\ UNCHANGED layers
       ELSE /\ layers' = [layers EXCEPT
                             ![Len(layers)].info[a] = Some(account),
                             ![Len(layers)].storage[<<a, slot>>] = Some(val)]
            /\ UNCHANGED cache
    /\ Returned(TRUE, 0)
    /\ Written

\* whether the layer holds anything of the account
Touched(layer, a) ==
    layer.info[a] # None \/ \E slot \in Slots : layer.storage[<<a, slot>>] # None

\* lines 176-182: the SerializableAccountRecord of an account of the layer
dump_account_bare(layer, a) ==
    LET info == IF layer.info[a] = None THEN DefaultInfo ELSE layer.info[a][1]
    IN  [nonce |-> info.nonce, balance |-> info.balance,
         code |-> code_bytes(info), storage |-> [slot \in Slots |-> None]]
dump_account(layer, a) ==
    LET info == IF layer.info[a] = None THEN DefaultInfo ELSE layer.info[a][1]
    IN  [nonce |-> info.nonce, balance |-> info.balance,
         code |-> code_bytes(info),
         storage |-> [slot \in Slots |-> layer.storage[<<a, slot>>]]]

\* lines 73-74 and 109-111: Db::dump_state.  The backend serializes the
\* accounts of its base layer (spec 4.D); the overlay returns None
dump_state(ls, db) ==
    IF db = "cache" THEN None
    ELSE Some([a \in Addrs |->
                  IF Touched(ls[1], a) THEN Some(dump_account(ls[1], a))
                  ELSE None])

\* the AccountInfo that load_state inserts for a record
loaded_info(rec) ==
    [nonce |-> rec.nonce, balance |-> rec.balance,
     code_hash |-> keccak256(rec.code),
     code |-> IF rec.code = <<>> THEN None ELSE Some(rec.code)]

\* lines 76-77: Db::load_state on the backend: every record is inserted and
\* its slots are set, on the top layer (spec 4.D)
load_state(ls, state) ==
    [ls EXCEPT ![Len(ls)] =
        [id |-> @.id,
         info |-> [a \in Addrs |->
                      IF state[a] = None THEN @.info[a]
                      ELSE Some(loaded_info(state[a][1]))],
         storage |-> [k \in Addrs \X Slots |->
                         IF state[k[1]] # None /\ state[k[1]][1].storage[k[2]] # None
                         THEN state[k[1]][1].storage[k[2]]
                         ELSE @.storage[k]]]]

DumpState(db) ==
    /\ dumped' = [st |-> "dumped", state |-> dump_state(layers, db)]
    /\ Returned(dump_state(layers, db) # None, 0)
    /\ UNCHANGED <<layers, cache, nextSnapshot, liveSnaps, dbWrites>>

\* lines 76-77 and 113-115: Db::load_state of the last dump; the overlay
\* returns false
LoadState(db) ==
    /\ dumped.st = "dumped"
    /\ dumped.state # None
    /\ IF db = "cache"
       THEN /\ UNCHANGED layers
            /\ Returned(FALSE, 0)
       ELSE /\ layers' = load_state(layers, dumped.state[1])
            /\ Returned(TRUE, 0)
    /\ dumped' = [dumped EXCEPT !.st = "loaded"]
    /\ UNCHANGED <<cache, nextSnapshot, liveSnaps, dbWrites>>

\* lines 96-100: a pending-block builder wraps the backend in a CacheDB
WrapInCache ==
    /\ target = "mem"
    /\ target' = "cache"
    /\ cache' = EmptyCache
    /\ UNCHANGED <<layers, nextSnapshot, liveSnaps, dbWrites, lastDb, dumped>>
    /\ UNCHANGED <<ipcVars, codecVars, minerVars, reqVars, lockVars, signVars, encVars, solcVars>>

\* the CacheDB is dropped
DiscardCache ==
    /\ target = "cache"
    /\ target' = "mem"
    /\ cache' = EmptyCache
    /\ UNCHANGED <<layers, nextSnapshot, liveSnaps, dbWrites, lastDb, dumped>>
    /\ UNCHANGED <<ipcVars, codecVars, minerVars, reqVars, lockVars, signVars, encVars, solcVars>>

----------------------------------------------------------------------------
(* The request envelope (anvil/anvil-core/src/eth/mod.rs).  A JSON value   *)
(* is its kind, its text (strings, numbers, booleans; for an object the    *)
(* name of what it holds) and, for an array, its items.                    *)

JStr(text) == [kind |-> "string", atom |-> text, items |-> <<>>]

JNum(text) == [kind |-> "number", atom |-> text, items |-> <<>>]

JBool(text) == [kind |-> "bool", atom |-> text, items |-> <<>>]

JObj(name) == [kind |-> "object", atom |-> name, items |-> <<>>]

JArr(items) == [kind |-> "array", atom |-> "", items |-> items]

JNull == [kind |-> "null", atom |-> "", items |-> <<>>]

\* a request without a params member
JAbsent == [kind |-> "absent", atom |-> "", items |-> <<>>]

Ok(val) == [ok |-> TRUE, val |-> val]

Err == [ok |-> FALSE, val |-> <<>>]

\* the digits of a 0x-prefixed quantity
Unhex(text) ==
    CASE text = "0x0" -> "0" [] text = "0x1" -> "1" [] text = "0x4" -> "4"
      [] OTHER -> ""

IsHexQuantity(text) == Unhex(text) # ""

\* the characters of a text that a number may be read from; any other text
\* holds a character that is no digit
Chars(text) ==
    CASE text = "" -> <<>>
      [] text \in {"0", "1", "4"} -> <<text>>
      [] text = "16" -> <<"1", "6">>
      [] text = "25" -> <<"2", "5">>
      [] text = "75" -> <<"7", "5">>
      [] text = "+1" -> <<"+", "1">>
      [] text = "0x" -> <<"0", "x">>
      [] text = "0x0" -> <<"0", "x", "0">>
      [] text = "0x1" -> <<"0", "x", "1">>
      [] text = "0x4" -> <<"0", "x", "4">>
      [] text = "0x10" -> <<"0", "x", "1", "0">>
      [] text = "0xg" -> <<"0", "x", "g">>
      [] text = "0x+1" -> <<"0", "x", "+", "1">>
      [] text = "zz" -> <<"z", "z">>
      [] OTHER -> <<text>>

\* char::to_digit for a radix of at most sixteen: sixteen or more is no digit
digit_of(c) ==
    CASE c = "0" -> 0 [] c = "1" -> 1 [] c = "2" -> 2 [] c = "3" -> 3
      [] c = "4" -> 4 [] c = "5" -> 5 [] c = "6" -> 6 [] c = "7" -> 7
      [] c = "8" -> 8 [] c = "9" -> 9 [] c \in {"a", "A"} -> 10
      [] c \in {"b", "B"} -> 11 [] c \in {"c", "C"} -> 12
      [] c \in {"d", "D"} -> 13 [] c \in {"e", "E"} -> 14
      [] c \in {"f", "F"} -> 15 [] OTHER -> 16

RECURSIVE digits_value(_, _)
digits_value(digits, radix) ==
    IF digits = <<>> THEN 0
    ELSE digits_value(SubSeq(digits, 1, Len(digits) - 1), radix) * radix
             + digit_of(digits[Len(digits)])

AllDigits(digits, radix) ==
    /\ digits # <<>>
    /\ \A i \in 1..Len(digits) : digit_of(digits[i]) < radix

\* usize::from_str_radix: an optional plus sign, then one digit or more
from_str_radix(src, radix) ==
    LET digits == IF src # <<>> /\ Head(src) = "+" THEN Tail(src) ELSE src
    IN  IF AllDigits(digits, radix) THEN Ok(digits_value(digits, radix))
        ELSE Err

\* str::strip_prefix("0x")
strip_prefix_0x(value) ==
    IF Len(value) >= 2 /\ value[1] = "0" /\ value[2] = "x"
    THEN Some(SubSeq(value, 3, Len(value))) ELSE None

\* types.rs lines 78-83: IndexVisitor::visit_u64
Index_visit_u64(value) == Ok(<<"Index", value>>)

\* types.rs lines 85-99: IndexVisitor::visit_str
Index_visit_str(value) ==
    LET stripped == strip_prefix_0x(value)
        parsed == IF stripped # None THEN from_str_radix(stripped[1], 16)
                  ELSE from_str_radix(value, 10)
    IN  IF parsed.ok THEN Ok(<<"Index", parsed.val>>) ELSE Err

\* the u64 of a JSON number without sign, fraction or exponent
json_u64(text) == digits_value(Chars(text), 10)

\* types.rs lines 63-110: Deserialize of Index, through deserialize_any
Index_deserialize(j) ==
    IF j.kind = "number" THEN Index_visit_u64(json_u64(j.atom))
    ELSE IF j.kind = "string" THEN Index_visit_str(Chars(j.atom))
    ELSE Err

\* Deserialize of U256: a string of 0x and hexadecimal digits
U256_deserialize(j) ==
    LET stripped == IF j.kind = "string" THEN strip_prefix_0x(Chars(j.atom))
                    ELSE None
    IN  IF stripped # None /\ AllDigits(stripped[1], 16)
        THEN Ok(<<"U256", digits_value(stripped[1], 16)>>) ELSE Err

\* the Deserialize impls of the parameter types (ethers_core types, bool,
\* Index of types.rs, the request structs): the typed value of a JSON value,
\* or an error
Leaf(ty, j) ==
    CASE ty = "Address" ->
           IF j = JStr("0xaddr") THEN Ok(<<"Address", "addr">>) ELSE Err
      [] ty = "H256" ->
           IF j = JStr("0xhash") THEN Ok(<<"H256", "hash">>) ELSE Err
      [] ty = "H64" ->
           IF j = JStr("0xnonce") THEN Ok(<<"H64", "nonce">>) ELSE Err
      [] ty = "Bytes" ->
           IF j = JStr("0xbytes") THEN Ok(<<"Bytes", "bytes">>) ELSE Err
      [] ty = "U256" -> U256_deserialize(j)
      [] ty = "u64" ->
           IF j.kind = "number" THEN Ok(<<"u64", json_u64(j.atom)>>) ELSE Err
      [] ty = "BlockNumber" ->
           IF j.kind = "string" /\ j.atom \in {"latest", "earliest", "pending"}
           THEN Ok(<<"BlockNumber", j.atom>>)
           ELSE IF j.kind = "string" /\ IsHexQuantity(j.atom)
           THEN Ok(<<"BlockNumber", Unhex(j.atom)>>) ELSE Err
      [] ty = "bool" ->
           IF j.kind = "bool" THEN Ok(<<"bool", j.atom>>) ELSE Err
      [] ty = "Index" -> Index_deserialize(j)
      [] ty = "VecF64" ->
           IF j.kind = "array" /\ \A i \in 1..Len(j.items) : j.items[i].kind = "number"
           THEN Ok(<<"Vec">> \o [i \in 1..Len(j.items) |-> j.items[i].atom])
           ELSE Err
      [] ty \in {"CallRequest", "EthTransactionRequest", "Filter"} ->
           IF j = JObj(ty) THEN Ok(<<ty, j.atom>>) ELSE Err
      [] OTHER -> Err

\* lines 115-132: deserialize_number, the untagged Numeric: a U256, else a u64
deserialize_number_u256(j) == Leaf("U256", j)
deserialize_number(j) ==
    IF Leaf("U256", j).ok THEN Leaf("U256", j)
    ELSE IF Leaf("u64", j).ok THEN Ok(<<"U256", Leaf("u64", j).val[2]>>)
    ELSE Err

\* a field of a variant: its type, whether it is an Option, whether it is
\* #[serde(default)], whether it is read with deserialize_number
Field(ty) == [ty |-> ty, opt |-> FALSE, dflt |-> FALSE, num |-> FALSE]

Opt(ty) == [ty |-> ty, opt |-> TRUE, dflt |-> FALSE, num |-> FALSE]

OptDefault(ty) == [ty |-> ty, opt |-> TRUE, dflt |-> TRUE, num |-> FALSE]

Default(ty) == [ty |-> ty, opt |-> FALSE, dflt |-> TRUE, num |-> FALSE]

Number(ty) == [ty |-> ty, opt |-> FALSE, dflt |-> FALSE, num |-> TRUE]

V(method, name, fields, sequence) ==
    [method |-> method, name |-> name, fields |-> fields, sequence |-> sequence]

\* lines 20-113: the variants of EthRequest; sequence is with = "sequence"
Variants ==
    { V("eth_chainId", "EthChainId", <<>>, FALSE),
      V("eth_gasPrice", "EthGasPrice", <<>>, FALSE),
      V("eth_accounts", "EthAccounts", <<>>, FALSE),
      V("eth_blockNumber", "EthBlockNumber", <<>>, FALSE),
      V("eth_getBalance", "EthGetBalance",
        <<Field("Address"), Opt("BlockNumber")>>, FALSE),
      V("eth_getStorageAt", "EthGetStorageAt",
        <<Field("Address"), Field("U256"), Opt("BlockNumber")>>, FALSE),
      V("eth_getBlockByHash", "EthGetBlockByHash",
        <<Field("H256"), Field("bool")>>, FALSE),
      V("eth_getBlockByNumber", "EthGetBlockByNumber",
        <<Field("BlockNumber"), Field("bool")>>, FALSE),
      V("eth_getTransactionCount", "EthGetTransactionCount",
        <<Field("Address"), Opt("BlockNumber")>>, FALSE),
      V("eth_getBlockTransactionCountByHash", "EthGetTransactionCountByHash",
        <<Field("H256")>>, FALSE),
      V("eth_getBlockTransactionCountByNumber", "EthGetTransactionCountByNumber",
        <<Field("BlockNumber")>>, FALSE),
      V("eth_getUncleCountByBlockHash", "EthGetUnclesCountByHash",
        <<Field("H256")>>, FALSE),
      V("eth_getUncleCountByBlockNumber", "EthGetUnclesCountByNumber",
        <<Field("BlockNumber")>>, FALSE),
      V("eth_getCode", "EthGetCodeAt",
        <<Field("Address"), Opt("BlockNumber")>>, FALSE),
      V("eth_sendTransaction", "EthSendTransaction",
        <<Field("EthTransactionRequest")>>, TRUE),
      V("eth_sendRawTransaction", "EthSendRawTransaction",
        <<Field("Bytes")>>, TRUE),
      V("eth_call", "EthCall",
        <<Field("CallRequest"), OptDefault("BlockNumber")>>, FALSE),
      V("eth_estimateGas", "EthEstimateGas",
        <<Field("CallRequest"), OptDefault("BlockNumber")>>, FALSE),
      V("eth_getTransactionByHash", "EthGetTransactionByHash",
        <<Field("H256")>>, TRUE),
      V("eth_getTransactionByBlockHashAndIndex",
        "EthGetTransactionByBlockHashAndIndex",
        <<Field("H256"), Field("Index")>>, FALSE),
      V("eth_getTransactionByBlockNumberAndIndex",
        "EthGetTransactionByBlockNumberAndIndex",
        <<Field("BlockNumber"), Field("Index")>>, FALSE),
      V("eth_getTransactionReceipt", "EthGetTransactionReceipt",
        <<Field("H256")>>, TRUE),
      V("eth_getUncleByBlockHashAndIndex", "EthGetUncleByBlockHashAndIndex",
        <<Field("H256"), Field("Index")>>, TRUE),
      V("eth_getUncleByBlockNumberAndIndex", "EthGetUncleByBlockNumberAndIndex",
        <<Field("BlockNumber"), Field("Index")>>, TRUE),
      V("eth_getLogs", "EthGetLogs", <<Field("Filter")>>, FALSE),
      V("eth_getWork", "EthGetWork", <<>>, FALSE),
      V("eth_submitWork", "EthSubmitWork",
        <<Field("H64"), Field("H256"), Field("H256")>>, TRUE),
      V("eth_submitHashrate", "EthSubmitHashRate",
        <<Field("U256"), Field("H256")>>, TRUE),
      V("eth_feeHistory", "EthFeeHistory",
        <<Number("U256"), Field("BlockNumber"), Default("VecF64")>>, FALSE) }

Methods == {v.method : v \in Variants}

VariantOf(method) == CHOOSE v \in Variants : v.method = method

\* one field from one JSON value
DeserField(f, j) ==
    IF f.opt /\ j.kind = "null" THEN Ok(<<"None">>)
    ELSE LET r == IF f.num THEN deserialize_number(j) ELSE Leaf(f.ty, j)
         IN  IF ~r.ok THEN Err
             ELSE IF f.opt THEN Ok(<<"Some">> \o r.val) ELSE r

\* Default::default() of a #[serde(default)] field
DefaultOf(f) == IF f.opt THEN <<"None">> ELSE <<"Vec">>

\* the fields of a tuple from a JSON array, position by position; a missing
\* trailing element is an error unless the field is #[serde(default)]
DeserTupleWhole(fields, j) ==
    IF /\ j.kind = "array"
       /\ Len(j.items) = Len(fields)
       /\ \A i \in 1..Len(fields) : DeserField(fields[i], j.items[i]).ok
    THEN Ok([i \in 1..Len(fields) |-> DeserField(fields[i], j.items[i]).val])
    ELSE Err
DeserTuple(fields, j) ==
    IF /\ j.kind = "array"
       /\ Len(j.items) <= Len(fields)
       /\ \A i \in 1..Len(fields) :
             IF i <= Len(j.items) THEN DeserField(fields[i], j.items[i]).ok
             ELSE fields[i].dflt
    THEN Ok([i \in 1..Len(fields) |->
                IF i <= Len(j.items) THEN DeserField(fields[i], j.items[i]).val
                ELSE DefaultOf(fields[i])])
    ELSE Err

\* the value T that a variant's with = "sequence" reads: the field itself for
\* one field, the tuple of all fields otherwise
DeserWhole(fields, j) ==
    IF Len(fields) = 1
    THEN LET r == DeserField(fields[1], j)
         IN  IF r.ok THEN Ok(<<r.val>>) ELSE Err
    ELSE DeserTuple(fields, j)

\* lines 151-164: sequence::deserialize: a Vec<T> that must hold one T
sequence_deserialize_first(fields, j) ==
    IF /\ j.kind = "array" /\ j.items # <<>>
       /\ \A i \in 1..Len(j.items) : DeserWhole(fields, j.items[i]).ok
    THEN DeserWhole(fields, j.items[1])
    ELSE Err
sequence_deserialize(fields, j) ==
    IF j.kind = "array" /\ \A i \in 1..Len(j.items) : DeserWhole(fields, j.items[i]).ok
    THEN IF Len(j.items) # 1 THEN Err ELSE DeserWhole(fields, j.items[1])
    ELSE Err

\* the params of a variant without with = "sequence": nothing for a unit
\* variant, the field itself for one field, a positional array otherwise
content_as_sequence(fields, j) == sequence_deserialize(fields, j)
content_deserialize(fields, j) ==
    IF fields = <<>>
    THEN IF j.kind \in {"absent", "null"} THEN Ok(<<>>) ELSE Err
    ELSE IF Len(fields) = 1 THEN DeserWhole(fields, j)
    ELSE DeserTuple(fields, j)

NotARequest == [ok |-> FALSE, variant |-> "", fields |-> <<>>]

\* lines 20-22: Deserialize of EthRequest, tagged by "method" with the
\* content in "params"
EthRequest_deserialize(req) ==
    IF req.method \notin Methods THEN NotARequest
    ELSE LET v == VariantOf(req.method)
             r == IF v.sequence THEN sequence_deserialize(v.fields, req.params)
                  ELSE content_deserialize(v.fields, req.params)
         IN  IF r.ok THEN [ok |-> TRUE, variant |-> v.name, fields |-> r.val]
             ELSE NotARequest

\* JSON values that a field's type accepts
Samples(f) ==
    (IF f.opt THEN {JNull} ELSE {})
    \cup (IF f.num THEN {JNum("4")} ELSE {})
    \cup CASE f.ty = "Address" -> {JStr("0xaddr")}
           [] f.ty = "H256" -> {JStr("0xhash")}
           [] f.ty = "H64" -> {JStr("0xnonce")}
           [] f.ty = "Bytes" -> {JStr("0xbytes")}
           [] f.ty = "U256" -> {JStr("0x4"), JStr("0x0")}
           [] f.ty = "BlockNumber" -> {JStr("latest"), JStr("0x4")}
           [] f.ty = "bool" -> {JBool("true")}
           [] f.ty = "Index" -> {JStr("0x1"), JStr("1"), JNum("1")}
           [] f.ty = "VecF64" -> {JArr(<<JNum("25"), JNum("75")>>), JArr(<<>>)}
           [] OTHER -> {JObj(f.ty)}

\* one accepted JSON value per field
ArgLists(fields) ==
    {args \in [1..Len(fields) -> UNION {Samples(fields[i]) : i \in 1..Len(fields)}] :
        \A i \in 1..Len(fields) : args[i] \in Samples(fields[i])}

\* the params a client may send for a list of arguments: none, the bare first
\* argument, the first k arguments as an array, the whole array in an array
ParamShapes(args) ==
    {JAbsent, JArr(<<JArr(args)>>)}
    \cup {JArr(SubSeq(args, 1, k)) : k \in 0..Len(args)}
    \cup (IF args = <<>> THEN {} ELSE {args[1]})

Requests ==
    UNION {{[method |-> v.method, params |-> p] :
               p \in UNION {ParamShapes(args) : args \in ArgLists(v.fields)}} :
           v \in Variants}

NoRequest == [method |-> "", params |-> JAbsent]

ReqStart ==
    /\ rpcReq = NoRequest
    /\ rpcRes = NotARequest

ReqIdle == ReqStart

\* serde_json::from_str::<EthRequest> on one request
\* index parameters in every spelling, well-formed or not, for the two
\* methods that take an index as their second positional parameter
IndexNumbers == {JNum("1"), JNum("16")}

IndexTexts ==
    {"1", "16", "0x1", "0x10", "", "0x", "zz", "0xg", "+1", "0x+1"}

IndexProbes ==
    {[method |-> v.method,
      params |-> JArr(<<CHOOSE x \in Samples(v.fields[1]) : TRUE, ix>>)] :
        v \in {w \in Variants :
                  /\ ~w.sequence /\ Len(w.fields) = 2
                  /\ w.fields[2] = Field("Index")},
        ix \in IndexNumbers \cup {JStr(t) : t \in IndexTexts}}

\* the methods whose single parameter is read with = "sequence"
WrappedVariants == {v \in Variants : v.sequence /\ Len(v.fields) = 1}

\* the longest params array sent to them
MaxParams == 3

\* params arrays of every length up to MaxParams for those methods
WrapperProbes ==
    {[method |-> v.method, params |-> JArr([i \in 1..k |-> x])] :
        v \in WrappedVariants,
        x \in UNION {Samples(w.fields[1]) : w \in WrappedVariants},
        k \in 0..MaxParams}

DeserializeRequest(req) ==
    /\ rpcReq' = req
    /\ rpcRes' = EthRequest_deserialize(req)
    /\ UNCHANGED <<ipcVars, codecVars, minerVars, dbVars, lockVars, signVars, encVars, solcVars>>

----------------------------------------------------------------------------
(* DevSigner (node/src/eth/sign.rs): a map from address to wallet, and the *)
(* Signer trait it implements.                                             *)

SignerAddrs == {"0xa1", "0xa2", "0xa3"}

\* the wallet of a development account
Wallet(address) == [key |-> address, chain_id |-> 1]

\* the maps DevSigner::new may be given
DevRegistries == {[a \in addrs |-> Wallet(a)] : addrs \in SUBSET SignerAddrs}

TxKinds == {<<"Call", "0xa2">>, <<"Create">>}

AccessLists == {<<>>, <<[address |-> "0xa3", storage_keys |-> <<"k1">>]>>}

\* the fields sign destructures, lines 53-60, 73-82 and 109-119
LegacyTransactionRequests ==
    [type : {"Legacy"}, nonce : {1}, gas_price : {1}, gas_limit : {21000},
     kind : TxKinds, value : {5}, input : {<<"i">>},
     chain_id : {None, Some(5)}]

EIP2930TransactionRequests ==
    [type : {"EIP2930"}, chain_id : {1, 5}, nonce : {1}, gas_price : {1},
     gas_limit : {21000}, kind : TxKinds, value : {5}, input : {<<"i">>},
     access_list : AccessLists]

EIP1559TransactionRequests ==
    [type : {"EIP1559"}, chain_id : {1, 5}, nonce : {1},
     max_priority_fee_per_gas : {1}, max_fee_per_gas : {2},
     gas_limit : {21000}, kind : TxKinds, value : {5}, input : {<<"i">>},
     access_list : AccessLists]

TypedTransactionRequests ==
    LegacyTransactionRequests \cup EIP2930TransactionRequests
        \cup EIP1559TransactionRequests

\* what the wallet's ECDSA computes for a digest: two scalars and the
\* recovery id of the curve point
EcdsaOutputs == [r : {258}, s : {65535}, recid : {0, 1}]

SignOk(tx, signature) ==
    [ok |-> TRUE, err |-> "", tx |-> Some(tx), signature |-> Some(signature)]

SignErr(err, signature) ==
    [ok |-> FALSE, err |-> err, tx |-> None, signature |-> signature]

\* line 45: self.accounts.get(address)
get_or_dev(accs, address) ==
    IF address \in DOMAIN accs THEN Some(accs[address])
    ELSE Some(Wallet(address))
get(accs, address) ==
    IF address \in DOMAIN accs THEN Some(accs[address]) ELSE None

\* the chain id the wallet signs for: the transaction's, else its own
signing_chain_id(signer, request) ==
    IF request.type = "Legacy"
    THEN IF request.chain_id = None THEN signer.chain_id
         ELSE request.chain_id[1]
    ELSE request.chain_id

\* line 49: Wallet::sign_transaction_sync gives the signature of the
\* transaction's digest with v in its EIP-155 form
sign_transaction_sync(signer, request, ecdsa) ==
    [r |-> ecdsa.r, s |-> ecdsa.s,
     v |-> ecdsa.recid + 35 + signing_chain_id(signer, request) * 2]

\* lines 84 and 121: Signature::recovery_id reads the recovery id back from
\* v, and fails for a v that encodes none
normalize_recovery_id_shifted(v) ==
    CASE v = 0 -> 0 [] v = 1 -> 1 [] v = 27 -> 0 [] v = 28 -> 1
      [] v >= 35 -> v % 2
      [] OTHER -> 4
normalize_recovery_id(v) ==
    CASE v = 0 -> 0 [] v = 1 -> 1 [] v = 27 -> 0 [] v = 28 -> 1
      [] v >= 35 -> (v - 1) % 2
      [] OTHER -> 4

recovery_id(signature) ==
    LET id == normalize_recovery_id(signature.v)
    IN  IF id \in {0, 1} THEN Ok(id) ELSE Err

\* lines 87-89, 124-126: U256::to_big_endian into [0u8; 32]
RECURSIVE to_big_endian(_, _)
to_big_endian(n, len) ==
    IF len = 0 THEN <<>>
    ELSE Append(to_big_endian(n \div 256, len - 1), n % 256)

H256_from(n) == to_big_endian(n, 32)

\* lines 51-71
sign_legacy(request, signature) ==
    [type |-> "Legacy", nonce |-> request.nonce,
     gas_price |-> request.gas_price, gas_limit |-> request.gas_limit,
     kind |-> request.kind, value |-> request.value, input |-> request.input,
     signature |-> signature]

\* lines 72-107
sign_eip2930(request, signature, recid) ==
    [type |-> "EIP2930", chain_id |-> request.chain_id,
     nonce |-> request.nonce, gas_price |-> request.gas_price,
     gas_limit |-> request.gas_limit, kind |-> request.kind,
     value |-> request.value, input |-> request.input,
     access_list |-> request.access_list, odd_y_parity |-> recid # 0,
     r |-> H256_from(signature.r), s |-> H256_from(signature.s)]

\* lines 108-145
sign_eip1559(request, signature, recid) ==
    [type |-> "EIP1559", chain_id |-> request.chain_id,
     nonce |-> request.nonce,
     max_priority_fee_per_gas |-> request.max_priority_fee_per_gas,
     max_fee_per_gas |-> request.max_fee_per_gas,
     gas_limit |-> request.gas_limit, kind |-> request.kind,
     value |-> request.value, input |-> request.input,
     access_list |-> request.access_list, odd_y_parity |-> recid # 0,
     r |-> H256_from(signature.r), s |-> H256_from(signature.s)]

\* lines 40-149: DevSigner::sign, given what the wallet's ECDSA computes
DevSigner_sign(accs, request, address, ecdsa) ==
    LET found == get(accs, address)
    IN  IF found = None THEN SignErr("NoSignerAvailable", None)
        ELSE LET signature == sign_transaction_sync(found[1], request, ecdsa)
                 recid == recovery_id(signature)
             IN  IF request.type = "Legacy"
                 THEN SignOk(sign_legacy(request, signature), signature)
                 ELSE IF ~recid.ok
                 THEN SignErr("SignatureError", Some(signature))
                 ELSE IF request.type = "EIP2930"
                 THEN SignOk(sign_eip2930(request, signature, recid.val),
                             signature)
                 ELSE SignOk(sign_eip1559(request, signature, recid.val),
                             signature)

\* lines 36-38: DevSigner::accounts
DevSigner_accounts(accs) == DOMAIN accs

\* lines 35-40: both methods of Signer take &self, so a call leaves the map
\* as it found it
accounts_after_sign_used(accs, address) ==
    [a \in DOMAIN accs \ {address} |-> accs[a]]
accounts_after_sign(accs, address) == accs

NoSign == [request |-> <<>>, address |-> "", ecdsa |-> <<>>]

NotSigned == SignErr("", None)

\* lines 30-32: DevSigner::new
SignStart ==
    /\ accounts \in DevRegistries
    /\ created = DOMAIN accounts
    /\ listed = None
    /\ signReq = NoSign
    /\ signRes = NotSigned

SignIdle ==
    /\ accounts = <<>>
    /\ created = {}
    /\ listed = None
    /\ signReq = NoSign
    /\ signRes = NotSigned

Accounts ==
    /\ listed' = Some(DevSigner_accounts(accounts))
    /\ UNCHANGED <<accounts, created, signReq, signRes>>
    /\ UNCHANGED <<ipcVars, codecVars, minerVars, dbVars, reqVars, lockVars, encVars,
                   solcVars>>

Sign(request, address, ecdsa) ==
    /\ signReq' = [request |-> request, address |-> address, ecdsa |-> ecdsa]
    /\ signRes' = DevSigner_sign(accounts, request, address, ecdsa)
    /\ accounts' = accounts_after_sign(accounts, address)
    /\ UNCHANGED <<created, listed>>
    /\ UNCHANGED <<ipcVars, codecVars, minerVars, dbVars, reqVars, lockVars, encVars,
                   solcVars>>

----------------------------------------------------------------------------
(* JsonRpcCodec::encode (anvil/server/src/ipc.rs, lines 151-158).  A       *)
(* message is a String; as_bytes gives the bytes it is made of.            *)

\* how many messages are encoded
MaxMsgs == 3

\* what the output buffer may hold when the first message is encoded
Unflushed == {<<>>, SpacedObject}

\* lines 155-157: buf.extend_from_slice(msg.as_bytes()); Ok(())
encode_line(msg, buffer) == [ret |-> "Ok", buf |-> buffer \o msg \o <<"\n">>]
encode(msg, buffer) == [ret |-> "Ok", buf |-> buffer \o msg]

EncStart ==
    /\ out \in Unflushed
    /\ msgs = <<>>

EncIdle ==
    /\ out = <<>>
    /\ msgs = <<>>

Encode(msg) ==
    /\ Len(msgs) < MaxMsgs
    /\ LET res == encode(msg, out)
       IN  /\ out' = res.buf
           /\ msgs' = Append(msgs, [msg |-> msg, ret |-> res.ret])
    /\ UNCHANGED <<ipcVars, codecVars, minerVars, dbVars, reqVars, lockVars, signVars,
                   solcVars>>

----------------------------------------------------------------------------
(* SolcBuilder (dapp/src/solc.rs): the choice of the compiler version for  *)
(* a file.  A Version is <<major, minor, patch>>; a VersionReq is a list   *)
(* of comparators, all of which a matching version satisfies.              *)

\* how many versions a list of installed versions holds at first
MaxVersions == 3

KnownVersions == {<<0, 4, 14>>, <<0, 4, 24>>, <<0, 5, 1>>, <<0, 8, 6>>}

Comparator(op, version) == [op |-> op, version |-> version]

\* the requirements of the pragmas "=0.4.14", "^0.4.14", ">=0.5.0",
\* ">=0.4.0 <0.5.0", ">0.8.0", ">=0.4.24" and ">=0.9.0"
VersionReqs ==
    {<<Comparator("=", <<0, 4, 14>>)>>,
     <<Comparator("^", <<0, 4, 14>>)>>,
     <<Comparator(">=", <<0, 5, 0>>)>>,
     <<Comparator(">=", <<0, 4, 0>>), Comparator("<", <<0, 5, 0>>)>>,
     <<Comparator(">", <<0, 8, 0>>)>>,
     <<Comparator(">=", <<0, 4, 24>>)>>,
     <<Comparator(">=", <<0, 9, 0>>)>>}

\* Version's Ord: major, then minor, then patch
Precedes(a, b) ==
    \/ a[1] < b[1]
    \/ a[1] = b[1] /\ a[2] < b[2]
    \/ a[1] = b[1] /\ a[2] = b[2] /\ a[3] < b[3]

\* semver's caret: the leftmost non-zero part stays, the rest may grow
matches_caret(c, v) ==
    /\ v[1] = c[1]
    /\ IF c[1] > 0 THEN ~Precedes(v, c)
       ELSE IF c[2] > 0 THEN v[2] = c[2] /\ v[3] >= c[3]
       ELSE v[2] = 0 /\ v[3] = c[3]

matches_comparator(cmp, v) ==
    CASE cmp.op = "=" -> v = cmp.version
      [] cmp.op = ">" -> Precedes(cmp.version, v)
      [] cmp.op = ">=" -> ~Precedes(v, cmp.version)
      [] cmp.op = "<" -> Precedes(v, cmp.version)
      [] cmp.op = "<=" -> ~Precedes(cmp.version, v)
      [] cmp.op = "^" -> matches_caret(cmp.version, v)

\* line 185: VersionReq::matches
matches(required_version, version) ==
    \A i \in 1..Len(required_version) :
        matches_comparator(required_version[i], version)

RECURSIVE insert_sorted(_, _)
insert_sorted(v, list) ==
    IF list = <<>> THEN <<v>>
    ELSE IF Precedes(v, Head(list)) THEN <<v>> \o list
    ELSE <<Head(list)>> \o insert_sorted(v, Tail(list))

RECURSIVE sorted(_)
sorted(list) ==
    IF list = <<>> THEN <<>> ELSE insert_sorted(Head(list), sorted(Tail(list)))

\* line 180: versions.sort()
sort_skipped(list) == list
sort(list) == sorted(list)

\* lines 182-186: the last element of the list that matches
RECURSIVE rev_find(_, _)
rev_find(list, required_version) ==
    IF list = <<>> THEN None
    ELSE IF matches(required_version, list[Len(list)])
    THEN Some(list[Len(list)])
    ELSE rev_find(SubSeq(list, 1, Len(list) - 1), required_version)

\* lines 175-187: the list as the call leaves it, and what the call returns
find_matching_installation(list, required_version) ==
    LET inOrder == sort(list)
    IN  [versions |-> inOrder, ret |-> rev_find(inOrder, required_version)]

\* lines 108-135: detect_version for a file whose pragma gives sol_version;
\* installed tells whether svm::install succeeds
detect_version(installedList, upstream, sol_version, installOk) ==
    LET local == find_matching_installation(installedList, sol_version)
        remote == find_matching_installation(upstream, sol_version)
    IN  IF local.ret # None
        THEN [ret |-> local.ret, panicked |-> FALSE,
              versions |-> local.versions, releases |-> upstream,
              installs |-> <<>>]
        ELSE IF remote.ret = None
        THEN [ret |-> None, panicked |-> FALSE, versions |-> local.versions,
              releases |-> remote.versions, installs |-> <<>>]
        ELSE IF ~installOk
        THEN [ret |-> None, panicked |-> TRUE, versions |-> local.versions,
              releases |-> remote.versions, installs |-> <<remote.ret[1]>>]
        ELSE [ret |-> remote.ret, panicked |-> FALSE,
              versions |-> Append(local.versions, remote.ret[1]),
              releases |-> remote.versions, installs |-> <<remote.ret[1]>>]

\* the lists of distinct versions of at most n elements
VersionLists(n) ==
    {list \in UNION {[1..k -> KnownVersions] : k \in 0..n} :
        \A i, j \in 1..Len(list) : i # j => list[i] # list[j]}

\* svm::all_versions: nothing when the download fails (lines 30-36)
UpstreamLists == {<<>>, <<<<0, 8, 6>>, <<0, 4, 14>>, <<0, 5, 1>>, <<0, 4, 24>>>>}

NoSolCall ==
    [op |-> "", required |-> <<>>, versions |-> <<>>, releases |-> <<>>]

NoSolRes == [ret |-> None, panicked |-> FALSE]

\* lines 23-44: SolcBuilder::new
SolcStart ==
    /\ versions \in VersionLists(MaxVersions)
    /\ releases \in UpstreamLists
    /\ svmInstalls = <<>>
    /\ solCall = NoSolCall
    /\ solRes = NoSolRes

SolcIdle ==
    /\ versions = <<>>
    /\ releases = <<>>
    /\ svmInstalls = <<>>
    /\ solCall = NoSolCall
    /\ solRes = NoSolRes

\* find_matching_installation on the list of installed versions
FindMatchingInstallation(required_version) ==
    LET res == find_matching_installation(versions, required_version)
    IN  /\ ~solRes.panicked
        /\ solCall' = [op |-> "find", required |-> required_version,
                       versions |-> versions, releases |-> releases]
        /\ solRes' = [ret |-> res.ret, panicked |-> FALSE]
        /\ versions' = res.versions
        /\ UNCHANGED <<releases, svmInstalls>>
        /\ UNCHANGED <<ipcVars, codecVars, minerVars, dbVars, reqVars, lockVars,
                       signVars, encVars>>

DetectVersion(sol_version, installOk) ==
    LET res == detect_version(versions, releases, sol_version, installOk)
    IN  /\ ~solRes.panicked
        /\ solCall' = [op |-> "detect", required |-> sol_version,
                       versions |-> versions, releases |-> releases]
        /\ solRes' = [ret |-> res.ret, panicked |-> res.panicked]
        /\ versions' = res.versions
        /\ releases' = res.releases
        /\ svmInstalls' = svmInstalls \o res.installs
        /\ UNCHANGED <<ipcVars, codecVars, minerVars, dbVars, reqVars, lockVars,
                       signVars, encVars>>

----------------------------------------------------------------------------
(* IPC connections (anvil/server/src/ipc.rs): the request stream of one    *)
(* connection and the accept loop of the endpoint.                         *)

\* how many times an IpcConn is polled
MaxConnPolls == 3

\* how many connections arrive at the endpoint
MaxArrivals == 2

\* how many bytes a connection reads
MaxConnBytes == 2

MethodCallText == "{\"jsonrpc\":\"2.0\",\"method\":\"eth_blockNumber\",\"id\":1}"
BatchText == "[{\"jsonrpc\":\"2.0\",\"method\":\"eth_blockNumber\",\"id\":1}]"
TruncatedText == "{\"jsonrpc\":\"2.0\",\"method\""
UnbracedText == "ab"

FrameTexts == {MethodCallText, BatchText, TruncatedText, UnbracedText}

RpcMethodCall == [method |-> "eth_blockNumber", params |-> <<>>, id |-> 1]

\* line 69: serde_json::from_str::<Request>(&text); a Request is one call or
\* a batch of calls
from_str(text) ==
    CASE text = MethodCallText -> <<"Ok", <<"Single", RpcMethodCall>>>>
      [] text = BatchText -> <<"Ok", <<"Batch", <<RpcMethodCall>>>>>>
      [] OTHER -> <<"Err", "serde_json">>

\* a mutation of on_request: a frame that does not parse yields Ok(None)
on_request_lenient(msg) ==
    IF msg[1] = "Err"
    THEN <<"Err", <<"RequestError", msg[2]>>>>
    ELSE LET parsed == from_str(msg[2])
         IN  IF parsed[1] = "Err"
             THEN <<"Ok", None>>
             ELSE <<"Ok", Some(parsed[2])>>

\* lines 67-70: let text = msg?; Ok(Some(serde_json::from_str(&text)?))
on_request(msg) ==
    IF msg[1] = "Err"
    THEN <<"Err", <<"RequestError", msg[2]>>>>
    ELSE LET parsed == from_str(msg[2])
         IN  IF parsed[1] = "Err"
             THEN <<"Err", <<"RequestError", parsed[2]>>>>
             ELSE <<"Ok", Some(parsed[2])>>

\* what the framed stream under the connection may return to a poll
FramedItems == {<<"Ok", text>> : text \in FrameTexts} \cup {<<"Err", "io">>}

FramedPolls ==
    {<<"Pending">>, <<"Ready", None>>}
        \cup {<<"Ready", Some(item)>> : item \in FramedItems}

\* lines 71-74: match ready!(inner.poll_next(cx))
IpcConn_poll_next(inner) ==
    IF inner[1] = "Pending"
    THEN <<"Pending">>
    ELSE IF inner[2] # None
         THEN <<"Ready", Some(on_request(inner[2][1]))>>
         ELSE <<"Ready", None>>

ConnStart ==
    /\ polled = <<>>
    /\ yielded = <<>>

\* one poll of the connection, the framed stream answering with inner
PollNext(inner) ==
    /\ Len(polled) < MaxConnPolls
    /\ polled' = Append(polled, inner)
    /\ yielded' = Append(yielded, IpcConn_poll_next(inner))
    /\ UNCHANGED <<listener, waiting, conns>>
    /\ UNCHANGED <<codecVars, minerVars, dbVars, reqVars, lockVars, signVars,
                   encVars, solcVars>>

Handler == [name |-> "handler"]

\* the bytes the peers of the model write
ConnBytes == {"{", "}"}

\* line 48: Decoder::framed(JsonRpcCodec, stream) and line 49:
\* PubSubConnection::new(IpcConn(framed), handler.clone())
new_connection(stream, handler) ==
    [stream |-> stream, buf |-> <<>>, frames |-> <<>>, read |-> 0,
     handler |-> handler]

ListenStart ==
    /\ listener = "new"
    /\ waiting = <<>>
    /\ conns = <<>>

\* lines 37-43: endpoint.incoming()
Listen(incoming) ==
    /\ listener = "new"
    /\ listener' = IF incoming = "Ok" THEN "accepting" ELSE "returned"
    /\ UNCHANGED <<polled, yielded, waiting, conns>>
    /\ UNCHANGED <<codecVars, minerVars, dbVars, reqVars, lockVars, signVars,
                   encVars, solcVars>>

\* a peer connects to the endpoint's path; accepting it will succeed ("Ok")
\* or fail ("Err")
Arrive(outcome) ==
    /\ Len(waiting) + Len(conns) < MaxArrivals
    /\ waiting' = Append(waiting, outcome)
    /\ UNCHANGED <<polled, yielded, listener, conns>>
    /\ UNCHANGED <<codecVars, minerVars, dbVars, reqVars, lockVars, signVars,
                   encVars, solcVars>>

\* a mutation of Accept: a failed accept is skipped and the loop goes on
AcceptSkipping(next) ==
    /\ listener = "accepting"
    /\ IF next = "Some"
       THEN /\ waiting # <<>>
            /\ waiting' = Tail(waiting)
            /\ IF Head(waiting) = "Ok"
               THEN conns' = Append(conns,
                                    new_connection(Len(conns) + 1, Handler))
               ELSE UNCHANGED conns
            /\ UNCHANGED listener
       ELSE /\ listener' = "returned"
            /\ UNCHANGED <<waiting, conns>>
    /\ UNCHANGED <<polled, yielded>>
    /\ UNCHANGED <<codecVars, minerVars, dbVars, reqVars, lockVars, signVars,
                   encVars, solcVars>>

\* lines 45-53: one turn of while let Some(Ok(stream)) = connections.next().await;
\* next is "Some" when the incoming stream hands over the connection at the
\* head of the queue, accepted or failed, and "None" when it ends
Accept(next) ==
    /\ listener = "accepting"
    /\ IF next = "Some"
       THEN /\ waiting # <<>>
            /\ waiting' = Tail(waiting)
            /\ IF Head(waiting) = "Ok"
               THEN /\ conns' = Append(conns,
                                       new_connection(Len(conns) + 1, Handler))
                    /\ UNCHANGED listener
               ELSE /\ listener' = "returned"
                    /\ UNCHANGED conns
       ELSE /\ listener' = "returned"
            /\ UNCHANGED <<waiting, conns>>
    /\ UNCHANGED <<polled, yielded>>
    /\ UNCHANGED <<codecVars, minerVars, dbVars, reqVars, lockVars, signVars,
                   encVars, solcVars>>

\* a spawned connection task reads one byte and its codec decodes
ConnRead(i, byte) ==
    /\ i \in 1..Len(conns)
    /\ conns[i].read < MaxConnBytes
    /\ LET r == decode(Append(conns[i].buf, byte))
       IN  conns' = [conns EXCEPT
                        ![i].buf = r.rest,
                        ![i].read = @ + 1,
                        ![i].frames = IF r.ret = "Some"
                                      THEN Append(@, r.frame) ELSE @]
    /\ UNCHANGED <<polled, yielded, listener, waiting>>
    /\ UNCHANGED <<codecVars, minerVars, dbVars, reqVars, lockVars, signVars,
                   encVars, solcVars>>

IpcIdle ==
    /\ ConnStart
    /\ ListenStart

ToolsIdle == SignIdle /\ EncIdle /\ SolcIdle /\ IpcIdle

----------------------------------------------------------------------------
(* Specifications *)

InitCodec == CodecStart /\ MinerIdle /\ DbIdle /\ ReqIdle /\ LockIdle /\ ToolsIdle

NextCodec == Receive \/ Decode

SpecCodec == InitCodec /\ [][NextCodec]_vars

InitRaw == RawStart /\ MinerIdle /\ DbIdle /\ ReqIdle /\ LockIdle /\ ToolsIdle

NextRaw == Receive \/ Decode

SpecRaw == InitRaw /\ [][NextRaw]_vars

InitMiner == MinerStart /\ CodecIdle /\ DbIdle /\ ReqIdle /\ LockIdle /\ ToolsIdle

NextMiner ==
    \/ \E tx \in TxUniverse : Admit(tx)
    \/ Tick
    \/ MinerPoll
    \/ DropMiner
    \/ Commit

SpecMiner == InitMiner /\ [][NextMiner]_vars

\* An Instant miner with max_transactions = 2 that is fed transactions before
\* its first poll and whose every batch is committed before the next poll.
FedUniverse == [sender : Senders, nonce : 0..(FedNonces - 1)]

InitFeed ==
    /\ MinerStart /\ mode = Instant(2)
    /\ CodecIdle /\ DbIdle /\ ReqIdle /\ LockIdle /\ ToolsIdle

Feed == \E tx \in FedUniverse : polls = 0 /\ Admit(tx)

FeedPoll == polls < MaxFeedPolls /\ queued = <<>> /\ Miner_poll

NextFeed == Feed \/ FeedPoll \/ Commit

SpecFeed == InitFeed /\ [][NextFeed]_vars

\* Two clones of one Miner poll while the pool admits transactions, the
\* interval ticks and the mode is replaced.
InitLock ==
    /\ MinerStart /\ mode \in {Instant(1), FixedBlockTime}
    /\ LockStart
    /\ CodecIdle /\ DbIdle /\ ReqIdle /\ ToolsIdle

NextLock ==
    \/ \E c \in Clones : AcquireForPoll(c)
    \/ \E c \in Clones : PollLocked(c)
    \/ \E new \in {Instant(1), Instant(2), FixedBlockTime} : ReplaceMode(new)
    \/ \E tx \in LockTxs : Admit(tx)
    \/ Tick

SpecLock == InitLock /\ [][NextLock]_vars

InitDb == DbStart /\ CodecIdle /\ MinerIdle /\ ReqIdle /\ LockIdle /\ ToolsIdle

NextDb ==
    \/ \E a \in Addrs, account \in AccountArgs : InsertAccount(target, a, account)
    \/ \E a \in Addrs, nonce \in NonceArgs : SetNonce(target, a, nonce)
    \/ \E a \in Addrs, balance \in BalanceArgs : SetBalance(target, a, balance)
    \/ \E a \in Addrs, code \in CodeArgs : SetCode(target, a, code)
    \/ \E a \in Addrs, slot \in Slots, val \in ValueArgs :
          SetStorageAt(target, a, slot, val)
    \/ Snapshot(target)
    \/ \E id \in 0..nextSnapshot : Revert(target, id)

SpecDb == InitDb /\ [][NextDb]_vars

\* The backend Db is mutated, dumped and loaded, wrapped in a CacheDB for a
\* pending block, and the CacheDB is mutated and dropped.
InitStore == DbStart /\ CodecIdle /\ MinerIdle /\ ReqIdle /\ LockIdle /\ ToolsIdle

NextStore ==
    \/ \E a \in Addrs, account \in AnyAccountArgs : InsertAccount(target, a, account)
    \/ \E a \in Addrs, nonce \in NonceArgs : SetNonce(target, a, nonce)
    \/ \E a \in Addrs, balance \in BalanceArgs : SetBalance(target, a, balance)
    \/ \E a \in Addrs, code \in CodeArgs : SetCode(target, a, code)
    \/ \E a \in Addrs, slot \in Slots, val \in ValueArgs :
          SetStorageAt(target, a, slot, val)
    \/ \E a \in Addrs, account \in AccountArgs, slot \in Slots, val \in ValueArgs :
          DbCommit(target, a, account, slot, val)
    \/ DumpState(target)
    \/ LoadState(target)
    \/ WrapInCache
    \/ DiscardCache

SpecStore == InitStore /\ [][NextStore]_vars

\* The backend Db is written and dumped, then wrapped in a CacheDB, and every
\* operation of Db is called on the CacheDB.
InitOverlay ==
    /\ DbStart /\ CodecIdle /\ MinerIdle /\ ReqIdle /\ LockIdle /\ ToolsIdle

NextOverlay ==
    \/ \E a \in Addrs, nonce \in NonceArgs : SetNonce(target, a, nonce)
    \/ \E a \in Addrs, slot \in Slots, val \in ValueArgs :
          SetStorageAt(target, a, slot, val)
    \/ DumpState(target)
    \/ WrapInCache
    \/ target = "cache" /\ Snapshot("cache")
    \/ target = "cache" /\ \E id \in 0..nextSnapshot : Revert("cache", id)
    \/ target = "cache" /\ LoadState("cache")

SpecOverlay == InitOverlay /\ [][NextOverlay]_vars

\* An IpcConn polled again and again, the framed stream under it returning
\* Pending, frames, read errors and the end of the stream in every order.
InitConn ==
    /\ ConnStart /\ ListenStart /\ SignIdle /\ EncIdle /\ SolcIdle
    /\ CodecIdle /\ MinerIdle /\ DbIdle /\ ReqIdle /\ LockIdle

NextConn == \E inner \in FramedPolls : PollNext(inner)

SpecConn == InitConn /\ [][NextConn]_vars

\* IpcEndpoint::listen with peers connecting before and after the accept
\* loop ends, and the spawned connections reading bytes.
InitListen ==
    /\ ListenStart /\ ConnStart /\ SignIdle /\ EncIdle /\ SolcIdle
    /\ CodecIdle /\ MinerIdle /\ DbIdle /\ ReqIdle /\ LockIdle

NextListen ==
    \/ \E incoming \in {"Ok", "Err"} : Listen(incoming)
    \/ \E outcome \in {"Ok", "Err"} : Arrive(outcome)
    \/ \E next \in {"Some", "None"} : Accept(next)
    \/ \E i \in 1..MaxArrivals, byte \in ConnBytes : ConnRead(i, byte)

SpecListen == InitListen /\ [][NextListen]_vars

InitReq == ReqStart /\ CodecIdle /\ MinerIdle /\ DbIdle /\ LockIdle /\ ToolsIdle

NextReq ==
    \E req \in Requests \cup IndexProbes \cup WrapperProbes :
        DeserializeRequest(req)

SpecReq == InitReq /\ [][NextReq]_vars

InitSign ==
    /\ SignStart /\ EncIdle /\ SolcIdle /\ IpcIdle
    /\ CodecIdle /\ MinerIdle /\ DbIdle /\ ReqIdle /\ LockIdle

NextSign ==
    \/ Accounts
    \/ \E request \in TypedTransactionRequests, address \in SignerAddrs,
          ecdsa \in EcdsaOutputs : Sign(request, address, ecdsa)

SpecSign == InitSign /\ [][NextSign]_vars

InitEnc ==
    /\ EncStart /\ SignIdle /\ SolcIdle /\ IpcIdle
    /\ CodecIdle /\ MinerIdle /\ DbIdle /\ ReqIdle /\ LockIdle

NextEnc == \E msg \in JsonValues : Encode(msg)

SpecEnc == InitEnc /\ [][NextEnc]_vars

InitSolc ==
    /\ SolcStart /\ SignIdle /\ EncIdle /\ IpcIdle
    /\ CodecIdle /\ MinerIdle /\ DbIdle /\ ReqIdle /\ LockIdle

NextSolc ==
    \/ \E required \in VersionReqs : FindMatchingInstallation(required)
    \/ \E required \in VersionReqs, installOk \in BOOLEAN :
          DetectVersion(required, installOk)

SpecSolc == InitSolc /\ [][NextSolc]_vars

----------------------------------------------------------------------------
(* Claims about the wire codec *)

\* the library values whose strings hold braces, brackets or escapes
QuotedBraceValues == {BraceInString, EscapedBackslash, EscapedQuote}

\* C1: for every prefix of a stream of JSON values written back to back, the
\* frames decode has returned are values of the stream, each as its own frame
\* and in stream order, never more than the values whose closing delimiter
\* lies within the prefix, and exactly those once decode returns None.
C1_CodecCompleteness ==
    NoSeparators =>
        /\ Len(frames) <= ClosedWithin(sent)
        /\ \A i \in 1..Len(frames) : frames[i] = vals[i]
        /\ decode(buf).ret = "None" => Len(frames) = ClosedWithin(sent)

\* the first value has been framed from a prefix that ends inside the second
C1_Witness ==
    /\ NoSeparators
    /\ Len(vals) = 2
    /\ sent > Len(vals[1])
    /\ sent < Len(Stream)
    /\ frames = <<vals[1]>>
    /\ decode(buf).ret = "None"

\* C2: braces and brackets inside a quoted string (also after an escaped
\* quote or an escaped backslash) do not change the nesting depth: a buffer
\* holding one such object yields no frame while the object is incomplete and
\* exactly one frame, ending at the object's real closing delimiter, once it
\* is complete.
C2_BracesInStringsIgnored ==
    (Len(vals) = 1 /\ vals[1] \in QuotedBraceValues /\ seps[1] = <<>>) =>
        IF frames = <<>>
        THEN /\ buf = Take(Stream, sent)
             /\ decode(buf) =
                  IF sent = Len(Stream)
                  THEN [ret |-> "Some", frame |-> vals[1], rest |-> <<>>,
                        split |-> TRUE]
                  ELSE [ret |-> "None", frame |-> <<>>, rest |-> buf,
                        split |-> FALSE]
        ELSE frames = <<vals[1]>> /\ buf = <<>> /\ sent = Len(Stream)

\* {"s":"}"} has been returned as one frame
C2_Witness ==
    /\ vals = <<BraceInString>>
    /\ seps = <<(<<>>)>>
    /\ frames = <<BraceInString>>
    /\ buf = <<>>

\* C10: with any amount of whitespace before the first value and between
\* values, the decode calls return one frame per value, in order, and no
\* frame holds more than one top-level value.
C10_WhitespaceTolerantFraming ==
    /\ \A i \in 1..Len(frames) :
          i <= Len(vals) /\ frames[i] = seps[i] \o vals[i]
    /\ (sent = Len(Stream) /\ decode(buf).ret = "None") =>
          Len(frames) = Len(vals)

\* C11: decode emits a frame only when an opening brace or bracket outside a
\* string has been scanned since the last frame: every frame holds one, and a
\* buffer without any (whitespace, bare text, bare scalars) yields no frame.
C11_FrameNeedsOpening ==
    /\ \A i \in 1..Len(frames) :
          \E j \in 1..Len(frames[i]) : frames[i][j] \in {"{", "["}
    /\ (\A j \in 1..Len(buf) : buf[j] \notin {"{", "["}) =>
          decode(buf).ret = "None"

\* the value decode is waiting for: the one after the frames returned so far
Awaited == vals[Len(frames) + 1]

\* C12: while the buffer holds only an incomplete value (cut before its
\* closing delimiter, also inside a string or after a backslash), decode
\* returns no frame and leaves the buffer as it is; once the rest of the
\* value has been appended, decode returns the value and empties the buffer.
C12_PartialInputKept ==
    (NoSeparators /\ Len(frames) < Len(vals) /\ IsPrefix(buf, Awaited)) =>
        decode(buf) =
            IF buf = Awaited
            THEN [ret |-> "Some", frame |-> Awaited, rest |-> <<>>,
                  split |-> TRUE]
            ELSE [ret |-> "None", frame |-> <<>>, rest |-> buf,
                  split |-> FALSE]

\* the first value was returned once complete, and the buffer now holds the
\* second one cut right after the backslash of an escape
C12_Witness ==
    /\ NoSeparators
    /\ vals = <<BraceInString, EscapedQuote>>
    /\ frames = <<BraceInString>>
    /\ buf = Take(EscapedQuote, 3)
    /\ decode(buf).ret = "None"

\* C13: when the bytes of a completed frame are not valid UTF-8, decode
\* returns an error: it neither reports that no frame is there yet nor takes
\* the frame's bytes out of the buffer without returning them.
C13_InvalidUtf8IsError ==
    LET idx == Scan(buf, 0, 0, FALSE, FALSE, 0, 0)
    IN  (idx # NoFrame /\ ~from_utf8_ok(SubSeq(buf, 1, idx + 1))) =>
            /\ decode(buf).ret = "Err"
            /\ decode(buf).rest = buf

----------------------------------------------------------------------------
(* Claims about the miner *)

\* the transactions of all committed blocks, in commit order
Mined == Flatten(blocks)

TimesMined(tx) == Cardinality({i \in 1..Len(Mined) : Mined[i] = tx})

\* a list of transactions holds each sender's nonces in strictly ascending order
NonceAscending(txs) ==
    \A i, j \in 1..Len(txs) :
        (i < j /\ txs[i].sender = txs[j].sender) => txs[i].nonce < txs[j].nonce

\* C3: in Instant mode a poll moves every hash available on the channel into
\* the accumulator; if the accumulator is then non-empty the poll returns
\* Ready with the first min(max_transactions, number of ready transactions)
\* entries of the pool's ready list, in the pool's order, and removes from
\* the accumulator exactly the hashes of the returned transactions.
C3_InstantPollBatch ==
    [][(polls' = polls + 1 /\ mode.kind = "Instant") =>
         LET acc == mode.ready \cup {rx[i] : i \in 1..Len(rx)}
             n == IF Len(ready_transactions) < mode.max_transactions
                  THEN Len(ready_transactions) ELSE mode.max_transactions
         IN  /\ rx' = <<>>
             /\ acc # {} =>
                  /\ lastPoll'.ret = "Ready"
                  /\ lastPoll'.txs = [i \in 1..n |-> ready_transactions[i]]
                  /\ Len(lastPoll'.txs) <= mode.max_transactions
                  /\ mode'.ready =
                       acc \ {Hash(lastPoll'.txs[i]) : i \in 1..n}
             /\ acc = {} => lastPoll'.ret = "Pending" /\ mode'.ready = {}
      ]_vars

\* an Instant poll returned max_transactions = 2 of three ready transactions
\* and kept the hash of the third in the accumulator
C3_Witness ==
    /\ mode.kind = "Instant"
    /\ mode.max_transactions = 2
    /\ lastPoll.ret = "Ready"
    /\ Len(lastPoll.txs) = 2
    /\ Len(poolReady) = 3
    /\ Cardinality(mode.ready) = 1
    /\ rx = <<>>

\* C4: over any interleaving of admissions, polls and commits no transaction
\* is included in two committed blocks, also when the miner is polled again
\* before the batch of the previous poll has been committed.
C4_MinedAtMostOnce == \A tx \in TxUniverse : TimesMined(tx) <= 1

\* C5: every batch the miner returns lists each sender's transactions in
\* strictly ascending nonce order, and across the committed batches a
\* sender's mined nonces never go backwards.
C5_PerSenderNonceOrder ==
    /\ NonceAscending(lastPoll.txs)
    /\ \A i \in 1..Len(queued) : NonceAscending(queued[i])
    /\ \A i, j \in 1..Len(Mined) :
          (i < j /\ Mined[i].sender = Mined[j].sender) =>
              Mined[i].nonce <= Mined[j].nonce

\* the sizes of the batches the miner has returned, in order
BatchSizes == [i \in 1..(Len(blocks) + Len(queued)) |->
                  Len((blocks \o queued)[i])]

\* how many ready transactions were fed: the mined ones and those still ready
FedReady == Len(Mined) + Len(poolReady)

\* C14: an Instant miner with max_transactions = 2 that was fed 5 ready
\* transactions, each batch committed before the next poll, returns batches
\* of sizes 2, 2 and 1 in that order and Pending from the fourth poll on.
C14_FiveReadyThreeBatches ==
    (FedReady = 5 /\ polls > 0) =>
        /\ BatchSizes = SubSeq(<<2, 2, 1>>, 1, Min(polls, 3))
        /\ polls > 3 => lastPoll = [ret |-> "Pending", txs |-> <<>>]

\* five were fed, three blocks are committed and the fourth poll is done
C14_Witness ==
    /\ mode.kind = "Instant" /\ mode.max_transactions = 2
    /\ Len(Mined) = 5
    /\ Len(blocks) = 3
    /\ polls = 4
    /\ lastPoll.ret = "Pending"

\* the set of transactions in the pool
PoolSet == Range(poolReady) \cup poolPending

\* C15: no poll and no drop of the miner changes the pool's ready and
\* pending sets, whatever the poll returns; a transaction leaves the pool only
\* in a step that commits a block.
C15_PollLeavesPool ==
    [][/\ (MinerPoll \/ DropMiner) => UNCHANGED <<poolReady, poolPending>>
       /\ ~(PoolSet \subseteq PoolSet') => Len(blocks') = Len(blocks) + 1]_vars

\* a poll has returned a batch, the miner was then dropped, and the batch is
\* still in the pool
C15_Witness ==
    /\ mode.kind = "Dropped"
    /\ lastPoll.ret = "Ready"
    /\ Len(lastPoll.txs) = 2
    /\ Range(lastPoll.txs) \subseteq Range(poolReady)
    /\ blocks = <<>>

\* C16: the mode is one value behind one lock shared by the clones of the
\* Miner: polls of different clones never overlap, the mode a poll found when
\* it took the lock is the mode it runs on (no replacement in between), and a
\* poll that starts after a replacement runs under the installed mode.
C16_ModeBehindOneLock ==
    /\ Cardinality({c \in Clones : pc[c] = "polling"}) <= 1
    /\ Installed(mode) = installed
    /\ \A c \in Clones :
          pc[c] = "polling" => (locked /\ seen[c] = Installed(mode))

\* after a poll under the first mode and a replacement by an Instant mode
\* with another cap, the second clone is polling under the new mode
C16_Witness ==
    /\ swaps = 1
    /\ polls = 1
    /\ installed = Installed(Instant(2))
    /\ pc["c2"] = "polling"
    /\ seen["c2"] = Installed(Instant(2))
    /\ seen["c1"] # Installed(Instant(2))
    /\ Len(poolReady) = 2

\* C17: in FixedBlockTime mode poll returns Ready exactly when the interval
\* has ticked, with the pool's whole ready list as the batch (no cap, empty
\* when nothing is ready); without a tick it returns Pending.
C17_IntervalPoll ==
    [][(MinerPoll /\ mode.kind = "FixedBlockTime") =>
          lastPoll' = IF mode.ticked
                      THEN [ret |-> "Ready", txs |-> ready_transactions]
                      ELSE [ret |-> "Pending", txs |-> <<>>]]_vars

\* an interval poll took a batch of three, the batch became a block, and the
\* poll after the next tick returned an empty batch
C17_Witness ==
    /\ mode.kind = "FixedBlockTime"
    /\ Len(blocks) = 1
    /\ Len(blocks[1]) = 3
    /\ lastPoll = [ret |-> "Ready", txs |-> <<>>]
    /\ queued = <<(<<>>)>>

----------------------------------------------------------------------------
(* Claims about the state database *)

\* the state every read of the Db returns for an untouched database
EmptyView == ViewOf(<<EmptyLayer(0)>>, EmptyCache, "mem")

\* C6 as stated, for every Db: revert(s) for an id s that an earlier
\* snapshot() returned and no revert has invalidated returns true and leaves
\* nonce, balance, code and storage of every account as they were when
\* snapshot() returned s.
C6_RevertRestoresAnyDb ==
    [][\A id \in 0..nextSnapshot :
          (Revert(target, id) /\ IsLive(target, id)) =>
              /\ lastDb'.ret = TRUE
              /\ ViewOf(layers', cache', target) = ViewAt(target, id)
      ]_vars

\* C6 amended: the same for the backend's layered Db, not for the CacheDB
\* overlay (whose snapshot() returns 0 and whose revert() returns false and
\* restores nothing).
C6_RevertRestoresBackend ==
    [][\A id \in 0..nextSnapshot :
          (target = "mem" /\ Revert("mem", id) /\ IsLive("mem", id)) =>
              /\ lastDb'.ret = TRUE
              /\ ViewOf(layers', cache', "mem") = ViewAt("mem", id)
      ]_vars

\* snapshot, one mutation, revert: the backend reads as before the mutation
C6_Witness ==
    /\ target = "mem"
    /\ nextSnapshot = 2
    /\ dbWrites = 1
    /\ Len(layers) = 1
    /\ liveSnaps = {}
    /\ lastDb = [ret |-> TRUE, id |-> 0]
    /\ View("mem") = EmptyView

C18_OverlayWritesStayInOverlay ==
    [][target = "cache" =>
          /\ ViewOf(layers', cache', "mem") = View("mem")
          /\ target' = "mem" =>
                /\ cache' = EmptyCache
                /\ ViewOf(layers', cache', "cache") = View("mem")
      ]_vars

\* the backend was written, then wrapped, and a write through the overlay
\* shows in the overlay's reads only
C18_Witness ==
    /\ target = "cache"
    /\ dbWrites = 2
    /\ View("mem") # EmptyView
    /\ cache # EmptyCache
    /\ View("cache") # View("mem")

\* what the claim observes of a Db: nonce, balance and code of every account
\* and every storage slot
Observable(view) ==
    [info |-> [a \in Addrs |->
                  [nonce |-> view.info[a].nonce,
                   balance |-> view.info[a].balance,
                   code |-> code_bytes(view.info[a])]],
     storage |-> view.storage]

\* the Db reads as before once its own dump is loaded, into itself and into
\* a fresh Db
RoundTrips(db) ==
    LET d == dump_state(layers, db)
    IN  /\ d # None
        /\ Observable(ViewOf(load_state(layers, d[1]), cache, db))
              = Observable(View(db))
        /\ Observable(ViewOf(load_state(<<EmptyLayer(0)>>, d[1]), EmptyCache, db))
              = Observable(View(db))

\* C19 as stated, for every Db: in every state reached by mutations
\* dump_state yields a state, and loading it (into the same Db or a fresh
\* one) gives the nonce, balance, code and storage the Db had.
C19_RoundTripAnyDb == RoundTrips(target)

\* C19 amended: the same for the backend Db, where load_state of the dump
\* also returns true; not for the CacheDB overlay (whose dump_state returns
\* None and whose load_state returns false).
C19_RoundTripBackend ==
    /\ [](target = "mem" => RoundTrips("mem"))
    /\ [][(target = "mem" /\ LoadState("mem")
              /\ dumped.state = dump_state(layers, "mem")) =>
             /\ lastDb'.ret = TRUE
             /\ Observable(ViewOf(layers', cache', "mem")) = Observable(View("mem"))
         ]_vars

\* an account with code and a set slot was dumped and the dump loaded back
C19_Witness ==
    /\ target = "mem"
    /\ dumped.st = "loaded"
    /\ dumped.state = dump_state(layers, "mem")
    /\ lastDb.ret = TRUE
    /\ code_bytes(basic("mem", "a")) = <<"c">>
    /\ storage("mem", "a", 0) = 1

\* every account of both Dbs has the code hash of its code
ConsistentIn(ls, c) ==
    \A db \in Dbs, a \in Addrs :
        LET info == basic_of(ls, c, db, a)
        IN  info.code_hash = keccak256(code_bytes(info))

\* C20 as stated: in every state reached through the mutators, insert_account
\* included, each account's code_hash is the hash of its code (the empty-code
\* hash exactly when the code is empty).
C20_CodeHashConsistent == ConsistentIn(layers, cache)

\* C20 amended: every mutator keeps the code hashes consistent, and set_code
\* stores the hash of the code it is given, unless insert_account is handed
\* an AccountInfo whose code_hash is not the hash of its code, which it
\* stores as it is.
C20_MutatorsKeepCodeHash ==
    [][(/\ ConsistentIn(layers, cache)
        /\ ~(\E a \in Addrs : InsertAccount(target, a, UnbackedAccount)))
          => ConsistentIn(layers', cache')]_vars

\* set_code has stored code on one account and empty code on the other
C20_Witness ==
    /\ basic(target, "a").code = Some(<<"c">>)
    /\ basic(target, "a").code_hash = keccak256(<<"c">>)
    /\ basic(target, "b").code = Some(<<>>)
    /\ basic(target, "b").code_hash = KECCAK_EMPTY
    /\ basic(target, "b").nonce = 0
    /\ basic(target, "a").nonce = 0

----------------------------------------------------------------------------
(* Claims about the request envelope *)

\* the request of a method with the given params
Req(method, params) == [method |-> method, params |-> params]

\* C8: for every method with exactly one parameter, the request whose params
\* is the one-element array [x] and the request whose params is the bare
\* value x deserialize into the same EthRequest value.
C8_SingleParamParity ==
    \A v \in Variants :
        (Len(v.fields) = 1 /\ rpcReq.method = v.method) =>
            \A x \in Samples(v.fields[1]) :
                rpcReq.params \in {x, JArr(<<x>>)} =>
                    /\ rpcRes.ok
                    /\ rpcRes = EthRequest_deserialize(Req(v.method, x))
                    /\ rpcRes = EthRequest_deserialize(Req(v.method, JArr(<<x>>)))

\* C9: for every method with two or more parameters, a params array holding
\* one accepted element per parameter deserializes to the method's variant,
\* with the fields taken from the array in positional order.
C9_PositionalParams ==
    \A v \in Variants :
        (Len(v.fields) >= 2 /\ rpcReq.method = v.method) =>
            \A args \in ArgLists(v.fields) :
                rpcReq.params = JArr(args) =>
                    /\ rpcRes.ok
                    /\ rpcRes.variant = v.name
                    /\ \A i \in 1..Len(v.fields) :
                          rpcRes.fields[i] = DeserField(v.fields[i], args[i]).val

----------------------------------------------------------------------------
(* Claims about the development signer *)

\* C21: sign with an address that has no wallet in the registry returns
\* NoSignerAvailable and produces no signed transaction, whatever the type of
\* the request; for an address that accounts() lists, sign never returns
\* NoSignerAvailable.
C21_NoSignerAvailable ==
    signReq # NoSign =>
        /\ signReq.address \notin created =>
              /\ ~signRes.ok
              /\ signRes.err = "NoSignerAvailable"
              /\ signRes.tx = None
        /\ signReq.address \in DevSigner_accounts(accounts) =>
              signRes.err # "NoSignerAvailable"

C21_Witness ==
    /\ signReq # NoSign
    /\ signReq.address \notin created
    /\ signReq.request.type = "EIP1559"
    /\ signRes.err = "NoSignerAvailable"

\* the number a big-endian byte string stands for
RECURSIVE from_big_endian(_)
from_big_endian(bytes) ==
    IF bytes = <<>> THEN 0
    ELSE from_big_endian(SubSeq(bytes, 1, Len(bytes) - 1)) * 256
             + bytes[Len(bytes)]

IsScalarOf(bytes, n) ==
    /\ Len(bytes) = 32
    /\ \A i \in 1..32 : bytes[i] \in 0..255
    /\ from_big_endian(bytes) = n

\* C22: a successful sign returns a signed transaction of the type of the
\* request (Legacy, EIP-2930 or EIP-1559) that carries the request's nonce,
\* gas fields, kind, value, input and, for the typed transactions, chain id
\* and access list unchanged; for EIP-2930 and EIP-1559 odd_y_parity is true
\* exactly when the recovery id of the signature is not zero, and r and s
\* are the scalars of the signature as 32 big-endian bytes.
C22_SignedCarriesRequest ==
    signRes.ok =>
        LET request == signReq.request
            tx == signRes.tx[1]
        IN  /\ tx.type = request.type
            /\ tx.nonce = request.nonce
            /\ tx.gas_limit = request.gas_limit
            /\ tx.kind = request.kind
            /\ tx.value = request.value
            /\ tx.input = request.input
            /\ request.type \in {"Legacy", "EIP2930"} =>
                  tx.gas_price = request.gas_price
            /\ request.type = "EIP1559" =>
                  /\ tx.max_priority_fee_per_gas
                        = request.max_priority_fee_per_gas
                  /\ tx.max_fee_per_gas = request.max_fee_per_gas
            /\ request.type \in {"EIP2930", "EIP1559"} =>
                  /\ tx.chain_id = request.chain_id
                  /\ tx.access_list = request.access_list
                  /\ tx.odd_y_parity = (signReq.ecdsa.recid # 0)
                  /\ IsScalarOf(tx.r, signReq.ecdsa.r)
                  /\ IsScalarOf(tx.s, signReq.ecdsa.s)

C22_Witness ==
    /\ signRes.ok
    /\ signReq.request.type = "EIP2930"
    /\ signReq.request.access_list # <<>>
    /\ signRes.tx[1].odd_y_parity

\* C23: the registry never changes after construction: after any sequence of
\* accounts() and sign() calls the map is the one DevSigner::new was given
\* and accounts() returns the same set of addresses as right after new.
C23_RegistryImmutable ==
    /\ accounts = [a \in created |-> Wallet(a)]
    /\ listed # None => listed[1] = created

C23_Witness ==
    /\ signRes.ok
    /\ listed = Some(created)
    /\ signReq.address \in created

----------------------------------------------------------------------------
(* Claims about JsonRpcCodec::encode *)

Encoded == [i \in 1..Len(msgs) |-> msgs[i].msg]

\* C24: encode never fails and appends exactly the bytes of the message to
\* the end of the output buffer: the bytes the buffer held stay as they
\* were, no delimiter, length prefix or newline is added, and consecutive
\* messages lie back to back.
C24_EncodeAppendsMessage ==
    /\ [](/\ \A i \in 1..Len(msgs) : msgs[i].ret = "Ok"
          /\ \E held \in Unflushed : out = held \o Flatten(Encoded))
    /\ [][msgs' # msgs => out' = out \o msgs'[Len(msgs')].msg]_vars

C24_Witness ==
    /\ Len(msgs) = 2
    /\ out = SpacedObject \o EmptyObject \o NestedArray

----------------------------------------------------------------------------
(* Claims about the parameters of single methods *)

CallObject == JObj("CallRequest")

BlockTags == {JStr("latest"), JStr("0x4")}

\* C25: eth_call and eth_estimateGas accept both [call] and [call, block];
\* in the one-element form the block is absent, and the call object is
\* decoded to the same value in both forms.
C25_CallBlockOptional ==
    \A v \in {w \in Variants : w.method \in {"eth_call", "eth_estimateGas"}} :
        /\ rpcReq = Req(v.method, JArr(<<CallObject>>)) =>
              /\ rpcRes.ok /\ rpcRes.variant = v.name
              /\ rpcRes.fields[1] = Leaf("CallRequest", CallObject).val
              /\ rpcRes.fields[2] = <<"None">>
        /\ \A block \in BlockTags :
              rpcReq = Req(v.method, JArr(<<CallObject, block>>)) =>
                  /\ rpcRes.ok /\ rpcRes.variant = v.name
                  /\ rpcRes.fields[1] = Leaf("CallRequest", CallObject).val
                  /\ rpcRes.fields[2]
                        = <<"Some">> \o Leaf("BlockNumber", block).val

C25_Witness ==
    /\ rpcReq = Req("eth_estimateGas", JArr(<<CallObject>>))
    /\ rpcRes.ok
    /\ rpcRes.fields[2] = <<"None">>

\* C26: eth_getStorageAt with [address, slot, block tag] and eth_getBalance
\* with [address, block tag] deserialize into EthGetStorageAt and
\* EthGetBalance with the fields in that order.
C26_StorageAndBalanceParams ==
    /\ \A slot \in {0, 4} :
          rpcReq = Req("eth_getStorageAt",
                       JArr(<<JStr("0xaddr"),
                              JStr(IF slot = 0 THEN "0x0" ELSE "0x4"),
                              JStr("latest")>>)) =>
              /\ rpcRes.ok /\ rpcRes.variant = "EthGetStorageAt"
              /\ rpcRes.fields
                    = <<(<<"Address", "addr">>), (<<"U256", slot>>),
                        (<<"Some", "BlockNumber", "latest">>)>>
    /\ rpcReq = Req("eth_getBalance",
                    JArr(<<JStr("0xaddr"), JStr("latest")>>)) =>
          /\ rpcRes.ok /\ rpcRes.variant = "EthGetBalance"
          /\ rpcRes.fields
                = <<(<<"Address", "addr">>),
                    (<<"Some", "BlockNumber", "latest">>)>>

C26_Witness ==
    /\ rpcReq = Req("eth_getStorageAt",
                    JArr(<<JStr("0xaddr"), JStr("0x0"), JStr("latest")>>))
    /\ rpcRes.variant = "EthGetStorageAt"

\* the spellings of the block counts 0 and 4: the JSON integer, if the
\* requests hold it, and the hex quantity
CountSpellings(n) ==
    IF n = 4 THEN {JNum("4"), JStr("0x4")} ELSE {JStr("0x0")}

\* C27: eth_feeHistory takes its first parameter as a plain JSON integer n
\* and as the hex quantity string of n, both giving the block count n; the
\* percentiles may be an empty array or be omitted, both giving the empty
\* list.
C27_FeeHistoryParams ==
    \A n \in {0, 4} : \A count \in CountSpellings(n) : \A block \in BlockTags :
        /\ rpcReq = Req("eth_feeHistory", JArr(<<count, block>>)) =>
              /\ rpcRes.ok /\ rpcRes.variant = "EthFeeHistory"
              /\ rpcRes.fields[1] = <<"U256", n>>
              /\ rpcRes.fields[3] = <<"Vec">>
        /\ rpcReq = Req("eth_feeHistory", JArr(<<count, block, JArr(<<>>)>>)) =>
              /\ rpcRes.ok /\ rpcRes.variant = "EthFeeHistory"
              /\ rpcRes.fields[1] = <<"U256", n>>
              /\ rpcRes.fields[3] = <<"Vec">>
        /\ rpcReq = Req("eth_feeHistory",
                        JArr(<<count, block,
                               JArr(<<JNum("25"), JNum("75")>>)>>)) =>
              /\ rpcRes.ok /\ rpcRes.variant = "EthFeeHistory"
              /\ rpcRes.fields[1] = <<"U256", n>>
              /\ rpcRes.fields[3] = <<"Vec", "25", "75">>

C27_Witness ==
    /\ rpcReq = Req("eth_feeHistory", JArr(<<JNum("4"), JStr("latest")>>))
    /\ rpcRes.ok
    /\ rpcRes.fields[1] = <<"U256", 4>>
    /\ rpcRes.fields[3] = <<"Vec">>

\* the index a text spells in decimal or in 0x-prefixed hexadecimal; no
\* other text of the probes spells one
SpelledIndex(text) ==
    CASE text \in {"1", "0x1"} -> Some(1)
      [] text \in {"16", "0x10"} -> Some(16)
      [] OTHER -> None

IndexParam == IF rpcReq.params.kind = "array" /\ Len(rpcReq.params.items) = 2
              THEN rpcReq.params.items[2] ELSE JNull

\* C28: an Index deserializes to the same value from the JSON unsigned
\* integer n, from the decimal string of n and from the 0x-prefixed hex
\* string of n; a string that is neither valid decimal nor valid 0x-prefixed
\* hex, the bare prefix "0x" included, is rejected with an error.
C28_IndexSpellings ==
    rpcReq \in IndexProbes =>
        /\ IndexParam = JNum("1") => rpcRes.ok /\ rpcRes.fields[2] = <<"Index", 1>>
        /\ IndexParam = JNum("16") =>
              rpcRes.ok /\ rpcRes.fields[2] = <<"Index", 16>>
        /\ IndexParam.kind = "string" =>
              IF SpelledIndex(IndexParam.atom) # None
              THEN /\ rpcRes.ok
                   /\ rpcRes.fields[2]
                         = <<"Index", SpelledIndex(IndexParam.atom)[1]>>
              ELSE ~rpcRes.ok

----------------------------------------------------------------------------
(* Claims about the choice of the compiler version *)

Satisfying(list, required) == {v \in Range(list) : matches(required, v)}

\* the greatest version of a set, if it has one
Greatest(set) ==
    IF set = {} THEN None
    ELSE Some(CHOOSE v \in set : \A w \in set : ~Precedes(v, w))

\* C29: find_matching_installation returns the greatest version of the list
\* that satisfies the requirement, whatever the order of the list, and
\* returns nothing exactly when no version of the list satisfies it.
C29_GreatestMatchingInstallation ==
    solCall.op = "find" =>
        solRes.ret = Greatest(Satisfying(solCall.versions, solCall.required))

C29_Witness ==
    /\ solCall.op = "find"
    /\ solCall.versions = <<(<<0, 5, 1>>), (<<0, 8, 6>>), (<<0, 4, 24>>)>>
    /\ solCall.required = <<Comparator(">=", <<0, 4, 24>>)>>
    /\ solRes.ret = Some(<<0, 8, 6>>)

\* C30: detect_version returns the latest compiler version that can build
\* the file, the greatest version satisfying the pragma among the installed
\* versions and the upstream releases; when that version is not installed it
\* is installed before returning and added to the installed versions of the
\* builder.
C30_DetectsLatestVersion ==
    (solCall.op = "detect" /\ ~solRes.panicked) =>
        LET best == Greatest(Satisfying(solCall.versions \o solCall.releases,
                                        solCall.required))
        IN  /\ solRes.ret = best
            /\ (best # None /\ best[1] \notin Range(solCall.versions)) =>
                  /\ svmInstalls # <<>>
                  /\ svmInstalls[Len(svmInstalls)] = best[1]
                  /\ best[1] \in Range(versions)

----------------------------------------------------------------------------
(* Claims about the single-element wrapper *)

\* C31: for eth_sendTransaction, eth_sendRawTransaction,
\* eth_getTransactionByHash and eth_getTransactionReceipt a params array of
\* length 1 decodes to its element, and a params array of any other length
\* is rejected with an error: no request value is produced from it.
C31_WrapperTakesOneElement ==
    \A v \in WrappedVariants :
        \A x \in Samples(v.fields[1]) : \A k \in 0..MaxParams :
            rpcReq = Req(v.method, JArr([i \in 1..k |-> x])) =>
                IF k = 1
                THEN /\ rpcRes.ok /\ rpcRes.variant = v.name
                     /\ rpcRes.fields = <<Leaf(v.fields[1].ty, x).val>>
                ELSE rpcRes = NotARequest

C31_Witness ==
    /\ rpcReq = Req("eth_sendRawTransaction",
                    JArr(<<JStr("0xbytes"), JStr("0xbytes")>>))
    /\ rpcRes = NotARequest

----------------------------------------------------------------------------
(* Claims about the accumulator of the Instant miner *)

\* C32: in Instant mode poll returns Pending if and only if the accumulator
\* is empty after the available notifications have been drained into it;
\* the pool does not enter the decision, so transactions that are ready in
\* the pool but were never notified do not cause a batch.
C32_PendingIffAccumulatorEmpty ==
    [][(polls' = polls + 1 /\ mode.kind = "Instant") =>
         ((lastPoll'.ret = "Pending") <=> (mode.ready \cup Range(rx) = {}))]_vars

\* the mode was FixedBlockTime at first (the clone that never polled still
\* has it), two transactions became ready under it without a notification,
\* an Instant mode was installed, and its one poll returned Pending
C32_Witness ==
    /\ polls = 1
    /\ seen["c2"] = Installed(FixedBlockTime)
    /\ seen["c1"] = Installed(Instant(2))
    /\ mode.kind = "Instant"
    /\ \A c \in Clones : pc[c] = "idle"
    /\ rx = <<>>
    /\ Len(poolReady) = 2
    /\ lastPoll.ret = "Pending"

\* C33: in Instant mode a notified hash leaves the accumulator only when a
\* poll returns the transaction with that hash; a hash whose transaction is
\* not among the first max_transactions entries of the pool's ready list
\* stays in the accumulator, and every poll while it stays returns Ready
\* (with a possibly empty batch) instead of Pending.
C33_HashLeavesOnlyWhenReturned ==
    [][(mode.kind = "Instant" /\ mode'.kind = "Instant") =>
         /\ \A h \in mode.ready \ mode'.ready :
               /\ polls' = polls + 1
               /\ lastPoll'.ret = "Ready"
               /\ h \in Hashes(lastPoll'.txs)
         /\ polls' = polls + 1 =>
               /\ \A h \in mode.ready \cup Range(rx) :
                     h \notin Hashes(TakeMax(ready_transactions,
                                             mode.max_transactions))
                         => h \in mode'.ready /\ lastPoll'.ret = "Ready"
               /\ mode.ready # {} => lastPoll'.ret = "Ready"]_vars

\* the hash of A's transaction has stayed in the accumulator through two
\* polls that both returned B's transaction
C33_Witness ==
    /\ polls = 2
    /\ mode.kind = "Instant"
    /\ mode.max_transactions = 1
    /\ mode.ready = {Hash([sender |-> "A", nonce |-> 0])}
    /\ lastPoll = [ret |-> "Ready", txs |-> <<[sender |-> "B", nonce |-> 0]>>]
    /\ Len(queued) = 2

----------------------------------------------------------------------------
(* Claims about the field setters and the overlay's inert operations *)

C35_OverlayOperationsInert ==
    [][target = "cache" =>
          /\ Snapshot("cache") =>
                lastDb'.id = 0 /\ ViewOf(layers', cache', "cache") = View("cache")
          /\ \A id \in 0..nextSnapshot :
                Revert("cache", id) =>
                    /\ lastDb'.ret = FALSE
                    /\ ViewOf(layers', cache', "cache") = View("cache")
          /\ DumpState("cache") =>
                /\ dumped'.state = None
                /\ ViewOf(layers', cache', "cache") = View("cache")
          /\ LoadState("cache") =>
                /\ lastDb'.ret = FALSE
                /\ ViewOf(layers', cache', "cache") = View("cache")
      ]_vars

\* nothing was ever dumped; the overlay was snapshotted and then written, and
\* the revert that followed returned false and left the write in place
C35_Witness ==
    /\ target = "cache"
    /\ dumped = NotDumped
    /\ IsLive("cache", 0)
    /\ View("cache") # ViewAt("cache", 0)
    /\ lastDb = [ret |-> FALSE, id |-> 0]


----------------------------------------------------------------------------
(* Claims about the request stream of an IPC connection and the accept     *)
(* loop of the endpoint                                                     *)

\* the items among a sequence of poll results, in order
RECURSIVE ItemsOf(_)
ItemsOf(results) ==
    IF results = <<>>
    THEN <<>>
    ELSE IF Head(results)[1] = "Ready" /\ Head(results)[2] # None
         THEN <<Head(results)[2][1]>> \o ItemsOf(Tail(results))
         ELSE ItemsOf(Tail(results))

ParsingTexts == {MethodCallText, BatchText}

\* C36: an IPC connection turns the frames of the framed stream into request
\* items one for one and in order: a frame that parses as a JSON-RPC request
\* yields Ok(Some(request)), a frame that does not parse and a failed read
\* yield an error item; no item is Ok(None); the connection goes on yielding
\* items after an error item, and it returns the end of the stream on
\* exactly the polls on which the framed stream returns it.
C36_OneItemPerFrame ==
    /\ Len(ItemsOf(yielded)) = Len(ItemsOf(polled))
    /\ \A i \in 1..Len(ItemsOf(polled)) :
          LET frame == ItemsOf(polled)[i]
              item == ItemsOf(yielded)[i]
          IN  /\ item # <<"Ok", None>>
              /\ IF frame[1] = "Ok" /\ frame[2] \in ParsingTexts
                 THEN /\ item[1] = "Ok"
                      /\ item[2] = Some(from_str(frame[2])[2])
                 ELSE item[1] = "Err"
    /\ Len(yielded) = Len(polled)
    /\ \A i \in 1..Len(polled) :
          /\ yielded[i] = <<"Ready", None>> <=> polled[i] = <<"Ready", None>>
          /\ yielded[i] = <<"Pending">> <=> polled[i] = <<"Pending">>

\* a frame that does not parse, then a failed read, then a request: three
\* items, the last one the request
C36_Witness ==
    /\ polled = << <<"Ready", Some(<<"Ok", TruncatedText>>)>>,
                   <<"Ready", Some(<<"Err", "io">>)>>,
                   <<"Ready", Some(<<"Ok", MethodCallText>>)>> >>
    /\ yielded[1][2][1][1] = "Err"
    /\ yielded[2][2][1][1] = "Err"
    /\ yielded[3] = <<"Ready", Some(<<"Ok", Some(<<"Single", RpcMethodCall>>)>>)>>


\* C37: IpcEndpoint::listen spawns one connection task for each successfully
\* accepted connection, with a codec state of its own and a clone of the
\* handler, and a connection that reads changes no other connection; when
\* the listener cannot be created listen returns with nothing accepted; the
\* first failed accept ends the accept loop for good, so that connections
\* arriving afterwards wait unserved, while the connections spawned before
\* can still read.
C37_AcceptLoop ==
    /\ [][/\ (/\ listener = "accepting"
              /\ waiting # <<>>
              /\ waiting' = Tail(waiting)) =>
                IF Head(waiting) = "Ok"
                THEN /\ listener' = "accepting"
                     /\ Len(conns') = Len(conns) + 1
                     /\ SubSeq(conns', 1, Len(conns)) = conns
                     /\ conns'[Len(conns')].buf = <<>>
                     /\ conns'[Len(conns')].frames = <<>>
                     /\ conns'[Len(conns')].handler = Handler
                     /\ \A i \in 1..Len(conns) :
                           conns'[Len(conns')].stream # conns[i].stream
                ELSE /\ listener' = "returned"
                     /\ conns' = conns
          /\ Listen("Err") => listener' = "returned" /\ conns' = <<>>
          /\ listener = "returned" =>
                /\ listener' = "returned"
                /\ Len(conns') = Len(conns)
                /\ Len(waiting') >= Len(waiting)
          /\ \A i \in 1..Len(conns) :
                \A byte \in ConnBytes :
                    ConnRead(i, byte) =>
                        \A j \in 1..Len(conns) : j # i => conns'[j] = conns[j]
         ]_vars
    /\ [](listener = "returned" =>
            \A i \in 1..Len(conns) :
                conns[i].read < MaxConnBytes => ENABLED ConnRead(i, "{"))

\* the accept loop has ended with one connection spawned and one, which
\* could be accepted, waiting unserved; the spawned connection has read a
\* whole object
C37_Witness ==
    /\ listener = "returned"
    /\ waiting = <<"Ok">>
    /\ Len(conns) = 1
    /\ conns[1].frames = <<EmptyObject>>
    /\ conns[1].buf = <<>>


----------------------------------------------------------------------------
(* Claims about the decoder under chunked input                             *)

\* the frames that decode calls return on a buffer, called until nothing
\* more is split off
RECURSIVE WholeFrames(_)
WholeFrames(b) ==
    LET r == decode(b)
    IN  IF r.ret = "Some" THEN <<r.frame>> \o WholeFrames(r.rest)
        ELSE IF r.split THEN WholeFrames(r.rest)
        ELSE <<>>

\* the bytes received so far
Received == SubSeq(Stream, 1, sent)

\* C38: the decoder keeps no state between calls, so the frames emitted for
\* a byte stream do not depend on how the stream is cut into chunks: the
\* frames emitted so far, followed by the frames still to be had from the
\* buffer, are the frames of the received bytes decoded as one chunk.
C38_FramesIndependentOfChunking ==
    frames \o WholeFrames(buf) = WholeFrames(Received)

\* two values arrived; one frame was emitted while the other value was
\* already in the buffer, whole and not yet decoded
C38_Witness ==
    /\ Len(vals) = 2
    /\ sent = Len(Stream)
    /\ Len(frames) = 1
    /\ Len(WholeFrames(buf)) = 1

\* C39: an emitted frame is the prefix of the buffer up to and including the
\* byte at which it was emitted, leading whitespace included, and the bytes
\* after it stay in the buffer unchanged and in order; so the emitted frames
\* followed by the buffer are the bytes received.
C39_FramesPartitionInput ==
    /\ [][Decode =>
             \/ frames' = frames /\ buf' = buf
             \/ /\ Len(frames') = Len(frames) + 1
                /\ SubSeq(frames', 1, Len(frames)) = frames
                /\ frames'[Len(frames')] # <<>>
                /\ frames'[Len(frames')] \o buf' = buf
         ]_vars
    /\ [](Flatten(frames) \o buf = Received)

\* a frame was emitted with the line feed that preceded its opening brace,
\* and bytes that followed it are left in the buffer
C39_Witness ==
    /\ frames = << <<"\n">> \o EmptyObject >>
    /\ buf # <<>>

=============================================================================
